---- MODULE Spec2Model ----
(***************************************************************************)
(* A state-machine model of SceneManager (src/src/SceneManager.cpp): the   *)
(* texture registry, the material table and the setters that push per-draw *)
(* state into the shader-uniform interface.                                *)
(*                                                                         *)
(* Floats are modelled by integers: colours and strengths in hundredths,   *)
(* rotation angles in whole degrees. For multiples of 90 degrees the sines *)
(* and cosines of glm::rotate are exactly -1, 0 or 1 and the model matrix  *)
(* is computed; for the other angles of the scene it is kept as the list   *)
(* of its factors.                                                         *)
(***************************************************************************)
EXTENDS Integers, Sequences, FiniteSets, TLC

VARIABLES
    m_pShaderManager,   \* "NULL" or "shader": the pointer given to the constructor
    m_textureIDs,       \* the array TEXTURE_INFO m_textureIDs[16]: slot -> [tag, ID]
    m_loadedTextures,   \* number of registered textures
    m_objectMaterials,  \* std::vector<OBJECT_MATERIAL>
    uniforms,           \* the shader's uniform store: name -> value (absent: never set)
    glTextures,         \* GL texture names generated by glGenTextures (none is ever deleted)
    glActive,           \* the active texture unit (glActiveTexture)
    glUnits,            \* texture unit -> name bound to its GL_TEXTURE_2D target (0: none)
    imagesHeld,         \* decoded image buffers not yet given to stbi_image_free
    oobWrites,          \* indices of m_textureIDs written beyond the array
    alive,              \* FALSE once the process has crashed
    loads,              \* history: every CreateGLTexture call, in call order
    last,               \* history: the most recent call, its arguments and result
    prev,               \* history: the call that preceded the most recent SetShaderTexture call
    pc,                 \* the driver's position: the function running and its next call
    meshLoads,          \* history: mesh -> number of Load<mesh>Mesh calls
    bindCalls,          \* history: for each BindGLTextures call of the scene, Len(loads) then
    sinceDraw,          \* history: the setters called since the previous draw
    frame,              \* history: the uniform writes and draws of the current RenderScene
    firstFrame          \* history: the same for the first completed RenderScene

vars == <<m_pShaderManager, m_textureIDs, m_loadedTextures, m_objectMaterials,
          uniforms, glTextures, glActive, glUnits, imagesHeld, oobWrites, alive,
          loads, last, prev, pc, meshLoads, bindCalls, sinceDraw, frame, firstFrame>>

registryVars == <<m_textureIDs, m_loadedTextures>>
glVars == <<glTextures, glActive, glUnits, imagesHeld>>
sceneVars == <<pc, meshLoads, bindCalls, sinceDraw, frame, firstFrame>>

-----------------------------------------------------------------------------
(* Program constants and model bounds *)

\* the size of m_textureIDs, as the constructor's loop gives it
NumSlots == 16

\* CreateGLTexture calls in the registry specification
MaxLoads == 3
\* CreateGLTexture calls in the shader-texture specification
MaxTexLoads == 2
\* successful loads attempted beyond the capacity in the capacity specification
MaxOverflow == 1
\* DefineObjectMaterials calls
MaxDefines == 2
\* presets pushed in the preset-table specification
MaxPresets == 3
\* RenderScene calls after PrepareScene
MaxFrames == 2
\* CreateGLTexture calls in the teardown specification
MaxTeardownLoads == 2
\* GL texture names generated in the teardown specification
MaxGenerated == 5
\* rotation inputs are 0, 90, ..., 90 * MaxQuarter degrees
MaxQuarter == 2

NULL == "NULL"
ShaderManagers == {NULL, "shader"}

TextureTags == {"Wood", "Metal", "White"}
LookupTags == TextureTags \cup {"Glass"}

\* what stbi_load can give for a file: no image, or an image of 1..4 channels
ImageFiles == {[decoded |-> FALSE, channels |-> 0]}
                \cup {[decoded |-> TRUE, channels |-> c] : c \in {1, 3, 4}}

NoCall == [op |-> "none"]

\* the primitives of ShapeMeshes that the scene loads and draws
Meshes == {"Plane", "Box", "Cylinder", "Torus"}

\* no SceneManager function is running; prepared: PrepareScene has returned;
\* frames: the RenderScene calls that have returned
Idle(prepared, frames) == [fn |-> "idle", at |-> 0, prepared |-> prepared, frames |-> frames]

-----------------------------------------------------------------------------
(* The shader-uniform interface *)

SetUniform(u, name, value) ==
    [n \in DOMAIN u \cup {name} |-> IF n = name THEN value ELSE u[n]]

IsSet(name) == name \in DOMAIN uniforms

-----------------------------------------------------------------------------
(* SceneManager::SceneManager *)

InitialEntry == [tag |-> "/0", ID |-> -1]

Init ==
    /\ m_pShaderManager \in ShaderManagers
    /\ m_textureIDs = [i \in 0..(NumSlots - 1) |-> InitialEntry]
    /\ m_loadedTextures = 0
    /\ m_objectMaterials = <<>>
    /\ uniforms = [n \in {} |-> 0]
    /\ glTextures = {}
    /\ glActive = 0
    /\ glUnits = [u \in 0..(NumSlots - 1) |-> 0]
    /\ imagesHeld = 0
    /\ oobWrites = {}
    /\ alive = TRUE
    /\ loads = <<>>
    /\ last = NoCall
    /\ prev = NoCall
    /\ pc = Idle(FALSE, 0)
    /\ meshLoads = [mesh \in Meshes |-> 0]
    /\ bindCalls = <<>>
    /\ sinceDraw = <<>>
    /\ frame = <<>>
    /\ firstFrame = <<>>

-----------------------------------------------------------------------------
(* SceneManager::CreateGLTexture *)

\* glGenTextures(1, &textureID): a name not in use
GenTexture == Cardinality(glTextures) + 1

ChannelsSupported_Any(colorChannels) == TRUE

\* lines 103-112: only RGB and RGBA images are uploaded
ChannelsSupported(colorChannels) == colorChannels = 3 \/ colorChannels = 4

RegisterTexture_KeepCount(ids, n, tag, textureID) ==
    [ids |-> [ids EXCEPT ![n] = [tag |-> tag, ID |-> textureID]], n |-> n]

RegisterTexture_ReplaceExisting(ids, n, tag, textureID) ==
    IF \E i \in 0..(n - 1) : ids[i].tag = tag
    THEN [ids |-> [i \in DOMAIN ids |-> IF i < n /\ ids[i].tag = tag
                                         THEN [tag |-> tag, ID |-> textureID]
                                         ELSE ids[i]],
          n |-> n]
    ELSE [ids |-> [ids EXCEPT ![n] = [tag |-> tag, ID |-> textureID]], n |-> n + 1]

\* lines 122-124, for an index inside the array
RegisterTexture(ids, n, tag, textureID) ==
    [ids |-> [ids EXCEPT ![n] = [tag |-> tag, ID |-> textureID]], n |-> n + 1]

FailedLoad_SkipsSlot(n) == n + 1

\* the count after a call that returns false: no statement of a failing path writes it
FailedLoad(n) == n

CreateGLTexture(image, tag) ==
    LET textureID == GenTexture
        call(ret, id) == [op |-> "CreateGLTexture", tag |-> tag, image |-> image,
                          retB |-> ret, ID |-> id, before |-> m_loadedTextures]
    IN
    /\ UNCHANGED <<m_pShaderManager, m_objectMaterials, uniforms, glActive, prev>>
    /\ IF ~image.decoded
       THEN \* lines 129-132
            /\ last' = call(FALSE, 0)
            /\ loads' = Append(loads, call(FALSE, 0))
            /\ m_loadedTextures' = FailedLoad(m_loadedTextures)
            /\ UNCHANGED <<m_textureIDs, glTextures, glUnits, imagesHeld, oobWrites, alive>>
       ELSE IF ~ChannelsSupported(image.channels)
       THEN \* lines 92-93 and 108-112: the texture stays generated and bound,
            \* the image is not freed
            /\ glTextures' = glTextures \cup {textureID}
            /\ glUnits' = [glUnits EXCEPT ![glActive] = textureID]
            /\ imagesHeld' = imagesHeld + 1
            /\ last' = call(FALSE, textureID)
            /\ loads' = Append(loads, call(FALSE, textureID))
            /\ m_loadedTextures' = FailedLoad(m_loadedTextures)
            /\ UNCHANGED <<m_textureIDs, oobWrites, alive>>
       ELSE \* lines 92-126
            /\ glTextures' = glTextures \cup {textureID}
            /\ glUnits' = [glUnits EXCEPT ![glActive] = 0]
            /\ UNCHANGED imagesHeld
            /\ IF m_loadedTextures < NumSlots
               THEN LET reg == RegisterTexture(m_textureIDs, m_loadedTextures,
                                               tag, textureID)
                    IN  /\ m_textureIDs' = reg.ids
                        /\ m_loadedTextures' = reg.n
                        /\ last' = call(TRUE, textureID)
                        /\ loads' = Append(loads, call(TRUE, textureID))
                        /\ UNCHANGED <<oobWrites, alive>>
               ELSE \* m_textureIDs[m_loadedTextures] lies beyond the array:
                    \* the write lands in the memory after it, or the process dies
                    \E outcome \in {"overwrite", "crash"} :
                        /\ oobWrites' = oobWrites \cup {m_loadedTextures}
                        /\ UNCHANGED m_textureIDs
                        /\ IF outcome = "overwrite"
                           THEN /\ m_loadedTextures' = m_loadedTextures + 1
                                /\ last' = call(TRUE, textureID)
                                /\ loads' = Append(loads, call(TRUE, textureID))
                                /\ UNCHANGED alive
                           ELSE /\ alive' = FALSE
                                /\ last' = [op |-> "crash"]
                                /\ UNCHANGED <<m_loadedTextures, loads>>

-----------------------------------------------------------------------------
(* SceneManager::BindGLTextures *)

BoundUnits_Shifted(units, ids, n) ==
    [u \in DOMAIN units |-> IF u + 1 < n THEN ids[u + 1].ID ELSE units[u]]

\* lines 143-148: unit i gets m_textureIDs[i].ID, for i < m_loadedTextures
BoundUnits(units, ids, n) ==
    [u \in DOMAIN units |-> IF u < n THEN ids[u].ID ELSE units[u]]

BindGLTextures ==
    /\ m_loadedTextures <= NumSlots
    /\ glUnits' = BoundUnits(glUnits, m_textureIDs, m_loadedTextures)
    /\ glActive' = IF m_loadedTextures > 0 THEN m_loadedTextures - 1 ELSE glActive
    /\ last' = [op |-> "BindGLTextures",
                units |-> {u \in DOMAIN glUnits :
                              BoundUnits(glUnits, m_textureIDs, m_loadedTextures)[u]
                                  # glUnits[u] \/ u < m_loadedTextures}]
    /\ UNCHANGED <<m_pShaderManager, m_textureIDs, m_loadedTextures, m_objectMaterials,
                   uniforms, glTextures, imagesHeld, oobWrites, alive, loads, prev>>

-----------------------------------------------------------------------------
(* SceneManager::FindTextureID and SceneManager::FindTextureSlot *)

RECURSIVE TextureScan(_, _)
\* the while loops of lines 177-186 and 203-212: the index the scan stops at
TextureScan(tag, index) ==
    IF index < m_loadedTextures /\ m_textureIDs[index].tag # tag
    THEN TextureScan(tag, index + 1)
    ELSE index

FindTextureID(tag) ==
    LET index == TextureScan(tag, 0)
    IN  IF index < m_loadedTextures THEN m_textureIDs[index].ID ELSE -1

RECURSIVE LastTextureScan(_, _)
LastTextureScan(tag, index) ==
    IF index >= 0 /\ m_textureIDs[index].tag # tag
    THEN LastTextureScan(tag, index - 1)
    ELSE index

FindTextureSlot_LastMatch(tag) == LastTextureScan(tag, m_loadedTextures - 1)

FindTextureSlot_MissIsZero(tag) ==
    LET index == TextureScan(tag, 0)
    IN  IF index < m_loadedTextures THEN index ELSE 0

FindTextureSlot(tag) ==
    LET index == TextureScan(tag, 0)
    IN  IF index < m_loadedTextures THEN index ELSE -1

CallFindTextureID(tag) ==
    /\ last' = [op |-> "FindTextureID", tag |-> tag, retI |-> FindTextureID(tag)]
    /\ UNCHANGED <<m_pShaderManager, registryVars, m_objectMaterials, uniforms,
                   glVars, oobWrites, alive, loads, prev>>

CallFindTextureSlot(tag) ==
    /\ last' = [op |-> "FindTextureSlot", tag |-> tag, retI |-> FindTextureSlot(tag)]
    /\ UNCHANGED <<m_pShaderManager, registryVars, m_objectMaterials, uniforms,
                   glVars, oobWrites, alive, loads, prev>>

-----------------------------------------------------------------------------
(* The texture registry under arbitrary calls *)

RegistryLoad ==
    \E image \in ImageFiles, tag \in TextureTags :
        alive /\ Len(loads) < MaxLoads /\ CreateGLTexture(image, tag) /\ UNCHANGED sceneVars

RegistryBind == alive /\ BindGLTextures /\ UNCHANGED sceneVars

RegistryFindID ==
    \E tag \in LookupTags : alive /\ CallFindTextureID(tag) /\ UNCHANGED sceneVars

RegistryFindSlot ==
    \E tag \in LookupTags : alive /\ CallFindTextureSlot(tag) /\ UNCHANGED sceneVars

NextRegistry == RegistryLoad \/ RegistryBind \/ RegistryFindID \/ RegistryFindSlot

\* a SceneManager constructed with a shader manager
InitWithShader == Init /\ m_pShaderManager # NULL

SpecRegistry == InitWithShader /\ [][NextRegistry]_vars

-----------------------------------------------------------------------------
(* The material table: SceneManager::DefineObjectMaterials and FindMaterial *)

Material(tag, ambientColor, ambientStrength, diffuseColor, specularColor, shininess) ==
    [tag |-> tag, ambientColor |-> ambientColor, ambientStrength |-> ambientStrength,
     diffuseColor |-> diffuseColor, specularColor |-> specularColor,
     shininess |-> shininess]

\* lines 400-440, in hundredths
paperMaterial == Material("Paper", <<80, 80, 80>>, 20, <<90, 90, 90>>, <<5, 5, 5>>, 1000)
woodMaterial == Material("Wood", <<20, 10, 10>>, 30, <<60, 40, 20>>, <<10, 10, 10>>, 2500)
plasticMaterial ==
    Material("Plastic", <<10, 10, 10>>, 10, <<70, 70, 70>>, <<60, 60, 60>>, 3000)
metalMaterial ==
    Material("Metal", <<10, 10, 10>>, 10, <<70, 70, 70>>, <<100, 100, 100>>, 8000)

MaterialTags == {"Paper", "Wood", "Metal", "Glass"}

\* an OBJECT_MATERIAL local that was declared and never assigned: its tag is the
\* empty string, its numbers are whatever the stack held
UninitializedMaterials ==
    {Material("", <<0, 0, 0>>, 0, <<0, 0, 0>>, <<0, 0, 0>>, 0),
     Material("", <<-7, 3, 99>>, -1, <<5, 5, -5>>, <<1, 2, 3>>, 77)}

RECURSIVE PushUnique(_, _)
PushUnique(table, presets) ==
    IF presets = <<>>
    THEN table
    ELSE PushUnique(IF \E i \in 1..Len(table) : table[i].tag = Head(presets).tag
                    THEN table
                    ELSE Append(table, Head(presets)),
                    Tail(presets))

DefinedMaterials_Unique(table) ==
    PushUnique(table, <<paperMaterial, woodMaterial, plasticMaterial, metalMaterial>>)

\* the four push_back calls of lines 408, 420, 430 and 440
DefinedMaterials(table) ==
    table \o <<paperMaterial, woodMaterial, plasticMaterial, metalMaterial>>

DefineObjectMaterials ==
    /\ m_objectMaterials' = DefinedMaterials(m_objectMaterials)
    /\ last' = [op |-> "DefineObjectMaterials"]
    /\ UNCHANGED <<m_pShaderManager, registryVars, uniforms, glVars, oobWrites, alive,
                   loads, prev>>

RECURSIVE MaterialScan(_, _)
\* the while loop of lines 232-247 (indices from 1): the index the scan stops at
MaterialScan(tag, index) ==
    IF index <= Len(m_objectMaterials) /\ m_objectMaterials[index].tag # tag
    THEN MaterialScan(tag, index + 1)
    ELSE index

RECURSIVE LastMaterialScan(_, _)
LastMaterialScan(tag, index) ==
    IF index >= 1 /\ m_objectMaterials[index].tag # tag
    THEN LastMaterialScan(tag, index - 1)
    ELSE index

FindMaterial_LastMatch(tag, material) ==
    IF Len(m_objectMaterials) = 0
    THEN [ret |-> FALSE, material |-> material]
    ELSE LET index == LastMaterialScan(tag, Len(m_objectMaterials))
         IN  [ret |-> TRUE,
              material |->
                  IF index >= 1
                  THEN [m_objectMaterials[index] EXCEPT !.tag = material.tag]
                  ELSE material]

\* the result and the value the reference parameter holds on return
FindMaterial(tag, material) ==
    IF Len(m_objectMaterials) = 0
    THEN [ret |-> FALSE, material |-> material]
    ELSE LET index == MaterialScan(tag, 1)
         IN  [ret |-> TRUE,
              material |->
                  IF index <= Len(m_objectMaterials)
                  THEN [m_objectMaterials[index] EXCEPT !.tag = material.tag]
                  ELSE material]

CallFindMaterial(tag) ==
    \E material \in UninitializedMaterials :
        /\ last' = [op |-> "FindMaterial", tag |-> tag,
                    retB |-> FindMaterial(tag, material).ret,
                    material |-> FindMaterial(tag, material).material]
        /\ UNCHANGED <<m_pShaderManager, registryVars, m_objectMaterials, uniforms,
                       glVars, oobWrites, alive, loads, prev>>

-----------------------------------------------------------------------------
(* The setters *)

\* a call through m_pShaderManager: on a null pointer the process dies
Crash(op) ==
    /\ alive' = FALSE
    /\ last' = [op |-> op, crashed |-> TRUE]
    /\ UNCHANGED <<m_pShaderManager, registryVars, m_objectMaterials, uniforms,
                   glVars, oobWrites, loads, prev>>

SetterFrame_ForgetsTexture ==
    /\ m_loadedTextures' = IF m_loadedTextures > 0 THEN m_loadedTextures - 1 ELSE 0
    /\ UNCHANGED <<m_pShaderManager, m_textureIDs, m_objectMaterials, glVars, oobWrites,
                   alive, loads>>

SetterFrame ==
    UNCHANGED <<m_pShaderManager, registryVars, m_objectMaterials, glVars, oobWrites,
                alive, loads>>

MaterialNames == <<"material.ambientColor", "material.ambientStrength",
                   "material.diffuseColor", "material.specularColor",
                   "material.shininess">>

MaterialUniforms_Accumulating(u, material) ==
    SetUniform(SetUniform(SetUniform(SetUniform(SetUniform(u,
        "material.ambientColor", material.ambientColor),
        "material.ambientStrength", material.ambientStrength),
        "material.diffuseColor", material.diffuseColor),
        "material.specularColor", material.specularColor),
        "material.shininess",
        IF "material.shininess" \in DOMAIN u
        THEN u["material.shininess"] + material.shininess
        ELSE material.shininess)

MaterialUniforms_ClearsSampler(u, material) ==
    SetUniform(SetUniform(SetUniform(SetUniform(SetUniform(SetUniform(u,
        "material.ambientColor", material.ambientColor),
        "material.ambientStrength", material.ambientStrength),
        "material.diffuseColor", material.diffuseColor),
        "material.specularColor", material.specularColor),
        "material.shininess", material.shininess),
        "objectTexture", -1)

\* lines 367-371
MaterialUniforms(u, material) ==
    SetUniform(SetUniform(SetUniform(SetUniform(SetUniform(u,
        "material.ambientColor", material.ambientColor),
        "material.ambientStrength", material.ambientStrength),
        "material.diffuseColor", material.diffuseColor),
        "material.specularColor", material.specularColor),
        "material.shininess", material.shininess)

SetShaderMaterial(materialTag) ==
    IF Len(m_objectMaterials) > 0
    THEN \E material \in UninitializedMaterials :
             LET found == FindMaterial(materialTag, material)
             IN  IF found.ret
                 THEN IF m_pShaderManager = NULL
                      THEN Crash("SetShaderMaterial")
                      ELSE /\ uniforms' = MaterialUniforms(uniforms, found.material)
                           /\ last' = [op |-> "SetShaderMaterial", tag |-> materialTag,
                                       writes |-> MaterialNames, pre |-> uniforms]
                           /\ UNCHANGED prev
                           /\ SetterFrame
                 ELSE /\ last' = [op |-> "SetShaderMaterial", tag |-> materialTag,
                                  writes |-> <<>>, pre |-> uniforms]
                      /\ UNCHANGED prev
                      /\ UNCHANGED uniforms
                      /\ SetterFrame
    ELSE /\ last' = [op |-> "SetShaderMaterial", tag |-> materialTag,
                     writes |-> <<>>, pre |-> uniforms]
         /\ UNCHANGED prev
         /\ UNCHANGED uniforms
         /\ SetterFrame

TextureUniforms_StickyMiss(u, textureID) ==
    IF "objectTexture" \in DOMAIN u /\ u["objectTexture"] = -1
    THEN SetUniform(u, "bUseTexture", 1)
    ELSE SetUniform(SetUniform(u, "bUseTexture", 1), "objectTexture", textureID)

\* lines 328 and 332: setIntValue(g_UseTextureName, true), then the sampler index
TextureUniforms(u, textureID) ==
    SetUniform(SetUniform(u, "bUseTexture", 1), "objectTexture", textureID)

SetShaderTexture(textureTag) ==
    /\ IF m_pShaderManager # NULL
       THEN /\ uniforms' = TextureUniforms(uniforms, FindTextureSlot(textureTag))
            /\ last' = [op |-> "SetShaderTexture", tag |-> textureTag,
                        writes |-> <<"bUseTexture", "objectTexture">>,
                        pre |-> uniforms]
       ELSE /\ UNCHANGED uniforms
            /\ last' = [op |-> "SetShaderTexture", tag |-> textureTag,
                        writes |-> <<>>, pre |-> uniforms]
    /\ prev' = last
    /\ SetterFrame

ColorUniforms_KeepMode(u, currentColor) == SetUniform(u, "objectColor", currentColor)

\* lines 312-313: setIntValue(g_UseTextureName, false), then the colour
ColorUniforms(u, currentColor) ==
    SetUniform(SetUniform(u, "bUseTexture", 0), "objectColor", currentColor)

SetShaderColor(redColorValue, greenColorValue, blueColorValue, alphaValue) ==
    /\ IF m_pShaderManager # NULL
       THEN /\ uniforms' = ColorUniforms(uniforms,
                   <<redColorValue, greenColorValue, blueColorValue, alphaValue>>)
            /\ last' = [op |-> "SetShaderColor",
                        color |-> <<redColorValue, greenColorValue, blueColorValue,
                                    alphaValue>>,
                        writes |-> <<"bUseTexture", "objectColor">>, pre |-> uniforms]
       ELSE /\ UNCHANGED uniforms
            /\ last' = [op |-> "SetShaderColor",
                        color |-> <<redColorValue, greenColorValue, blueColorValue,
                                    alphaValue>>,
                        writes |-> <<>>, pre |-> uniforms]
    /\ UNCHANGED prev
    /\ SetterFrame

SetTextureUVScale(u, v) ==
    /\ IF m_pShaderManager # NULL
       THEN /\ uniforms' = SetUniform(uniforms, "UVscale", <<u, v>>)
            /\ last' = [op |-> "SetTextureUVScale", writes |-> <<"UVscale">>,
                        pre |-> uniforms]
       ELSE /\ UNCHANGED uniforms
            /\ last' = [op |-> "SetTextureUVScale", writes |-> <<>>, pre |-> uniforms]
    /\ UNCHANGED prev
    /\ SetterFrame

-----------------------------------------------------------------------------
(* The material table and SetShaderMaterial under arbitrary calls *)

MaterialDefine ==
    /\ alive /\ Len(m_objectMaterials) < 4 * MaxDefines /\ DefineObjectMaterials
    /\ UNCHANGED sceneVars

MaterialFind ==
    \E tag \in MaterialTags : alive /\ CallFindMaterial(tag) /\ UNCHANGED sceneVars

MaterialSet ==
    \E tag \in MaterialTags : alive /\ SetShaderMaterial(tag) /\ UNCHANGED sceneVars

NextMaterial == MaterialDefine \/ MaterialFind \/ MaterialSet

SpecMaterial == InitWithShader /\ [][NextMaterial]_vars

-----------------------------------------------------------------------------
(* FindMaterial over tables whose presets share tags and differ in values *)

PresetInputs ==
    {woodMaterial, metalMaterial,
     Material("Wood", <<30, 30, 30>>, 40, <<50, 50, 50>>, <<20, 20, 20>>, 500),
     Material("Metal", <<0, 0, 0>>, 90, <<10, 20, 30>>, <<40, 50, 60>>, 100)}

\* m_objectMaterials.push_back(material), as at lines 408, 420, 430 and 440
PushMaterial(material) ==
    /\ m_objectMaterials' = Append(m_objectMaterials, material)
    /\ last' = [op |-> "push_back", material |-> material]
    /\ UNCHANGED <<m_pShaderManager, registryVars, uniforms, glVars, oobWrites, alive,
                   loads, prev>>

PresetPush ==
    \E material \in PresetInputs :
        /\ alive /\ Len(m_objectMaterials) < MaxPresets /\ PushMaterial(material)
        /\ UNCHANGED sceneVars

PresetFind ==
    \E tag \in {"Wood", "Metal", "Glass"} :
        alive /\ CallFindMaterial(tag) /\ UNCHANGED sceneVars

NextPresets == PresetPush \/ PresetFind

SpecPresets == InitWithShader /\ [][NextPresets]_vars

-----------------------------------------------------------------------------
(* SetShaderTexture and SetShaderColor over a registry under arbitrary calls *)

TexImageFiles == {[decoded |-> FALSE, channels |-> 0], [decoded |-> TRUE, channels |-> 3]}
TexTags == {"Wood", "Metal"}
TexColors == {<<100, 0, 0, 100>>}

TexLoad ==
    \E image \in TexImageFiles, tag \in TexTags :
        alive /\ Len(loads) < MaxTexLoads /\ CreateGLTexture(image, tag) /\ UNCHANGED sceneVars

TexSetTexture ==
    \E tag \in TexTags \cup {"Glass"} : alive /\ SetShaderTexture(tag) /\ UNCHANGED sceneVars

TexSetColor ==
    \E c \in TexColors :
        alive /\ SetShaderColor(c[1], c[2], c[3], c[4]) /\ UNCHANGED sceneVars

NextTexture == TexLoad \/ TexSetTexture \/ TexSetColor

SpecTexture == InitWithShader /\ [][NextTexture]_vars

-----------------------------------------------------------------------------
(* SceneManager::SetTransformations *)

\* cos and sin of glm::radians(degrees), for whole multiples of 90 degrees
Cos(degrees) ==
    CASE degrees % 360 = 0 -> 1
      [] degrees % 360 = 180 -> -1
      [] OTHER -> 0

Sin(degrees) ==
    CASE degrees % 360 = 90 -> 1
      [] degrees % 360 = 270 -> -1
      [] OTHER -> 0

\* mat4 * mat4; a matrix is its four rows
Dot(A, B, i, j) ==
    A[i][1] * B[1][j] + A[i][2] * B[2][j] + A[i][3] * B[3][j] + A[i][4] * B[4][j]

MulRow(A, B, i) == <<Dot(A, B, i, 1), Dot(A, B, i, 2), Dot(A, B, i, 3), Dot(A, B, i, 4)>>

Mul(A, B) == <<MulRow(A, B, 1), MulRow(A, B, 2), MulRow(A, B, 3), MulRow(A, B, 4)>>

\* glm::scale(v)
scale(v) ==
    <<<<v[1], 0, 0, 0>>, <<0, v[2], 0, 0>>, <<0, 0, v[3], 0>>, <<0, 0, 0, 1>>>>

\* glm::rotate(angle, axis), for a unit axis: c*I + (1-c)*a*a^T + s*[a]x
RotateEntry(c, s, axis, cross, i, j) ==
    (IF i = j THEN c ELSE 0) + (1 - c) * axis[i] * axis[j] + s * cross[i][j]

rotate(degrees, axis) ==
    LET c == Cos(degrees)
        s == Sin(degrees)
        cross == <<<<0, -axis[3], axis[2]>>,
                   <<axis[3], 0, -axis[1]>>,
                   <<-axis[2], axis[1], 0>>>>
        row(i) == <<RotateEntry(c, s, axis, cross, i, 1),
                    RotateEntry(c, s, axis, cross, i, 2),
                    RotateEntry(c, s, axis, cross, i, 3), 0>>
    IN  <<row(1), row(2), row(3), <<0, 0, 0, 1>>>>

\* glm::translate(v)
translate(v) ==
    <<<<1, 0, 0, v[1]>>, <<0, 1, 0, v[2]>>, <<0, 0, 1, v[3]>>, <<0, 0, 0, 1>>>>

ModelView_YBeforeX(scaleXYZ, XrotationDegrees, YrotationDegrees, ZrotationDegrees, positionXYZ) ==
    Mul(Mul(Mul(Mul(translate(positionXYZ),
                    rotate(YrotationDegrees, <<0, 1, 0>>)),
                rotate(XrotationDegrees, <<1, 0, 0>>)),
            rotate(ZrotationDegrees, <<0, 0, 1>>)),
        scale(scaleXYZ))

\* the sines and cosines above are those of glm only for these angles
ExactAngle(degrees) == degrees % 90 = 0

\* lines 274-282: translation * rotationX * rotationY * rotationZ * scale; for an
\* angle whose sine and cosine are not integers the product is kept as the
\* list of its five factors, in the order they are multiplied
ModelView(scaleXYZ, XrotationDegrees, YrotationDegrees, ZrotationDegrees, positionXYZ) ==
    IF ExactAngle(XrotationDegrees) /\ ExactAngle(YrotationDegrees)
           /\ ExactAngle(ZrotationDegrees)
    THEN Mul(Mul(Mul(Mul(translate(positionXYZ),
                         rotate(XrotationDegrees, <<1, 0, 0>>)),
                     rotate(YrotationDegrees, <<0, 1, 0>>)),
                 rotate(ZrotationDegrees, <<0, 0, 1>>)),
             scale(scaleXYZ))
    ELSE [product |-> <<[translate |-> positionXYZ],
                        [rotate |-> XrotationDegrees, axis |-> <<1, 0, 0>>],
                        [rotate |-> YrotationDegrees, axis |-> <<0, 1, 0>>],
                        [rotate |-> ZrotationDegrees, axis |-> <<0, 0, 1>>],
                        [scale |-> scaleXYZ]>>]

SetTransformations(scaleXYZ, XrotationDegrees, YrotationDegrees, ZrotationDegrees, positionXYZ) ==
    LET call(w) == [op |-> "SetTransformations", scaleXYZ |-> scaleXYZ,
                    XrotationDegrees |-> XrotationDegrees,
                    YrotationDegrees |-> YrotationDegrees,
                    ZrotationDegrees |-> ZrotationDegrees,
                    positionXYZ |-> positionXYZ, writes |-> w]
    IN  /\ IF m_pShaderManager # NULL
           THEN /\ uniforms' = SetUniform(uniforms, "model",
                       ModelView(scaleXYZ, XrotationDegrees, YrotationDegrees,
                                 ZrotationDegrees, positionXYZ))
                /\ last' = call(<<"model">>)
           ELSE /\ UNCHANGED uniforms
                /\ last' = call(<<>>)
        /\ UNCHANGED prev
        /\ SetterFrame

-----------------------------------------------------------------------------
(* SetTransformations over a range of inputs *)

ScaleInputs == {<<2, 1, 1>>, <<1, 2, 3>>, <<0, 0, 0>>}
AngleInputs == {90 * k : k \in 0..MaxQuarter}
PositionInputs == {<<1, 0, 0>>, <<-3, 4, 6>>}

XformSet ==
    \E s \in ScaleInputs, x \in AngleInputs, y \in AngleInputs, z \in AngleInputs,
       p \in PositionInputs :
        alive /\ SetTransformations(s, x, y, z, p) /\ UNCHANGED sceneVars

NextXform == XformSet

SpecXform == InitWithShader /\ [][NextXform]_vars

-----------------------------------------------------------------------------
(* CreateGLTexture up to and beyond the capacity of m_textureIDs *)

CapImageFiles == {[decoded |-> FALSE, channels |-> 0], [decoded |-> TRUE, channels |-> 3]}
CapTags == {"Wood"}

CapLoad ==
    \E image \in CapImageFiles, tag \in CapTags :
        /\ alive /\ Len(loads) < NumSlots + MaxOverflow /\ CreateGLTexture(image, tag)
        /\ UNCHANGED sceneVars

NextCap == CapLoad

SpecCap == InitWithShader /\ [][NextCap]_vars

-----------------------------------------------------------------------------
(* SceneManager::DestroyGLTextures and SceneManager::~SceneManager *)

\* the texture objects that exist: every name generated, since the source has
\* no glDeleteTextures call
LiveTextures == glTextures

\* lines 159-162: glGenTextures(1, &m_textureIDs[i].ID) for each registered slot
Regenerated(ids, n, generated) ==
    [i \in DOMAIN ids |-> IF i < n
                           THEN [ids[i] EXCEPT !.ID = Cardinality(generated) + 1 + i]
                           ELSE ids[i]]

DestroyGLTextures ==
    /\ m_loadedTextures <= NumSlots
    /\ m_textureIDs' = Regenerated(m_textureIDs, m_loadedTextures, glTextures)
    /\ glTextures' = glTextures
           \cup {Cardinality(glTextures) + 1 + i : i \in 0..(m_loadedTextures - 1)}
    /\ last' = [op |-> "DestroyGLTextures", before |-> glTextures]
    /\ UNCHANGED <<m_pShaderManager, m_loadedTextures, m_objectMaterials, uniforms,
                   glActive, glUnits, imagesHeld, oobWrites, alive, loads, prev>>

\* lines 56-58: the pointers are cleared and the meshes deleted; no GL call
Destructor ==
    /\ m_pShaderManager' = NULL
    /\ pc' = [pc EXCEPT !.fn = "destroyed"]
    /\ last' = [op |-> "~SceneManager", before |-> glTextures]
    /\ UNCHANGED <<registryVars, m_objectMaterials, uniforms, glVars, oobWrites, alive,
                   loads, prev, meshLoads, bindCalls, sinceDraw, frame, firstFrame>>

TeardownImageFiles ==
    {[decoded |-> FALSE, channels |-> 0], [decoded |-> TRUE, channels |-> 1],
     [decoded |-> TRUE, channels |-> 3]}

TeardownLoad ==
    \E image \in TeardownImageFiles, tag \in TexTags :
        /\ alive /\ pc.fn = "idle" /\ Len(loads) < MaxTeardownLoads
        /\ CreateGLTexture(image, tag)
        /\ UNCHANGED sceneVars

TeardownDestroy ==
    /\ alive /\ pc.fn = "idle"
    /\ Cardinality(glTextures) + m_loadedTextures <= MaxGenerated
    /\ DestroyGLTextures
    /\ UNCHANGED sceneVars

TeardownDestructor == alive /\ pc.fn = "idle" /\ Destructor

NextTeardown == TeardownLoad \/ TeardownDestroy \/ TeardownDestructor

SpecTeardown == InitWithShader /\ [][NextTeardown]_vars

-----------------------------------------------------------------------------
(* SceneManager::SetupSceneLights, and the calls into ShapeMeshes *)

\* lines 457-478, in hundredths: bUseLighting and three light sources
LightUniforms ==
    [n \in {"bUseLighting"} |-> 1]
    @@ [n \in {"lightSources[0].position"} |-> <<-300, 400, 600>>]
    @@ [n \in {"lightSources[1].position"} |-> <<300, 400, 600>>]
    @@ [n \in {"lightSources[2].position"} |-> <<0, 300, 2000>>]
    @@ [n \in {"lightSources[0].ambientColor", "lightSources[1].ambientColor"}
           |-> <<10, 10, 10>>]
    @@ [n \in {"lightSources[2].ambientColor"} |-> <<20, 20, 20>>]
    @@ [n \in {"lightSources[0].diffuseColor", "lightSources[1].diffuseColor"}
           |-> <<70, 70, 60>>]
    @@ [n \in {"lightSources[2].diffuseColor"} |-> <<80, 80, 80>>]
    @@ [n \in {"lightSources[0].specularColor", "lightSources[1].specularColor",
               "lightSources[2].specularColor"} |-> <<10, 10, 10>>]
    @@ [n \in {"lightSources[0].focalStrength", "lightSources[1].focalStrength"}
           |-> 1500]
    @@ [n \in {"lightSources[2].focalStrength"} |-> 1200]
    @@ [n \in {"lightSources[0].specularIntensity", "lightSources[1].specularIntensity",
               "lightSources[2].specularIntensity"} |-> 10]

\* m_pShaderManager is used without a null check
SetupSceneLights ==
    IF m_pShaderManager = NULL
    THEN Crash("SetupSceneLights")
    ELSE /\ uniforms' = LightUniforms @@ uniforms
         /\ last' = [op |-> "SetupSceneLights", writes |-> DOMAIN LightUniforms,
                     pre |-> uniforms]
         /\ UNCHANGED prev
         /\ SetterFrame

\* m_basicMeshes->Load<mesh>Mesh()
LoadMesh(mesh) ==
    /\ meshLoads' = [meshLoads EXCEPT ![mesh] = @ + 1]
    /\ last' = [op |-> "LoadMesh", mesh |-> mesh]
    /\ UNCHANGED <<m_pShaderManager, registryVars, m_objectMaterials, uniforms, glVars,
                   oobWrites, alive, loads, prev>>

\* m_basicMeshes->Draw<mesh>Mesh(): the record keeps the setters called since
\* the previous draw and the number of loads of the mesh so far
DrawMesh(mesh) ==
    /\ last' = [op |-> "DrawMesh", mesh |-> mesh, setters |-> sinceDraw,
                loaded |-> meshLoads[mesh]]
    /\ UNCHANGED <<m_pShaderManager, registryVars, m_objectMaterials, uniforms, glVars,
                   oobWrites, alive, loads, prev>>

-----------------------------------------------------------------------------
(* SceneManager::LoadSceneTextures and SceneManager::PrepareScene: the calls *)
(* they make, in order, each with the source line it stands on               *)

PrepareCalls_NoTorus ==
    <<[line |-> 388, op |-> "CreateGLTexture", tag |-> "Wood"],
      [line |-> 389, op |-> "CreateGLTexture", tag |-> "Metal"],
      [line |-> 390, op |-> "CreateGLTexture", tag |-> "Magazine Cover"],
      [line |-> 391, op |-> "CreateGLTexture", tag |-> "Black Metal"],
      [line |-> 392, op |-> "CreateGLTexture", tag |-> "White"],
      [line |-> 395, op |-> "BindGLTextures"],
      [line |-> 492, op |-> "DefineObjectMaterials"],
      [line |-> 493, op |-> "SetupSceneLights"],
      [line |-> 499, op |-> "LoadMesh", mesh |-> "Plane"],
      [line |-> 500, op |-> "LoadMesh", mesh |-> "Box"],
      [line |-> 501, op |-> "LoadMesh", mesh |-> "Cylinder"]>>

PrepareCalls_BindEarly ==
    <<[line |-> 388, op |-> "CreateGLTexture", tag |-> "Wood"],
      [line |-> 389, op |-> "CreateGLTexture", tag |-> "Metal"],
      [line |-> 390, op |-> "CreateGLTexture", tag |-> "Magazine Cover"],
      [line |-> 391, op |-> "CreateGLTexture", tag |-> "Black Metal"],
      [line |-> 395, op |-> "BindGLTextures"],
      [line |-> 392, op |-> "CreateGLTexture", tag |-> "White"],
      [line |-> 492, op |-> "DefineObjectMaterials"],
      [line |-> 493, op |-> "SetupSceneLights"],
      [line |-> 499, op |-> "LoadMesh", mesh |-> "Plane"],
      [line |-> 500, op |-> "LoadMesh", mesh |-> "Box"],
      [line |-> 501, op |-> "LoadMesh", mesh |-> "Cylinder"],
      [line |-> 502, op |-> "LoadMesh", mesh |-> "Torus"]>>

PrepareCalls ==
    <<[line |-> 388, op |-> "CreateGLTexture", tag |-> "Wood"],
      [line |-> 389, op |-> "CreateGLTexture", tag |-> "Metal"],
      [line |-> 390, op |-> "CreateGLTexture", tag |-> "Magazine Cover"],
      [line |-> 391, op |-> "CreateGLTexture", tag |-> "Black Metal"],
      [line |-> 392, op |-> "CreateGLTexture", tag |-> "White"],
      [line |-> 395, op |-> "BindGLTextures"],
      [line |-> 492, op |-> "DefineObjectMaterials"],
      [line |-> 493, op |-> "SetupSceneLights"],
      [line |-> 499, op |-> "LoadMesh", mesh |-> "Plane"],
      [line |-> 500, op |-> "LoadMesh", mesh |-> "Box"],
      [line |-> 501, op |-> "LoadMesh", mesh |-> "Cylinder"],
      [line |-> 502, op |-> "LoadMesh", mesh |-> "Torus"]>>

\* the image files of the scene: each is absent, or an RGB image
SceneImageFiles == {[decoded |-> FALSE, channels |-> 0], [decoded |-> TRUE, channels |-> 3]}

-----------------------------------------------------------------------------
(* SceneManager::RenderScene: the calls it makes, in order, each with the    *)
(* source line it stands on and the arguments the preceding assignments give *)
(* it. Scales and positions are in thousandths, angles in degrees, colours   *)
(* in ten-thousandths.                                                       *)

RenderCalls ==
    <<
    [line |-> 534, op |-> "SetTransformations", scaleXYZ |-> <<85000, 1000, 200000>>, X |-> 0, Y |-> 0, Z |-> 0, positionXYZ |-> <<0, -32000, -200000>>],
    [line |-> 541, op |-> "SetShaderMaterial", tag |-> "Wood"],
    [line |-> 542, op |-> "SetShaderTexture", tag |-> "Wood"],
    [line |-> 545, op |-> "Draw", mesh |-> "Plane"],
    [line |-> 562, op |-> "SetTransformations", scaleXYZ |-> <<350, 350, 400>>, X |-> 0, Y |-> 0, Z |-> 0, positionXYZ |-> <<-11300, -8850, -33400>>],
    [line |-> 569, op |-> "SetShaderMaterial", tag |-> "Metal"],
    [line |-> 570, op |-> "SetShaderTexture", tag |-> "White"],
    [line |-> 573, op |-> "Draw", mesh |-> "Torus"],
    [line |-> 591, op |-> "SetTransformations", scaleXYZ |-> <<550, 550, 400>>, X |-> 90, Y |-> 0, Z |-> 0, positionXYZ |-> <<-10500, -8400, -33500>>],
    [line |-> 598, op |-> "SetShaderMaterial", tag |-> "Metal"],
    [line |-> 599, op |-> "SetShaderTexture", tag |-> "White"],
    [line |-> 602, op |-> "Draw", mesh |-> "Torus"],
    [line |-> 620, op |-> "SetTransformations", scaleXYZ |-> <<250, 2300, 250>>, X |-> 0, Y |-> 0, Z |-> 0, positionXYZ |-> <<7700, -9600, -30000>>],
    [line |-> 627, op |-> "SetShaderMaterial", tag |-> "Metal"],
    [line |-> 628, op |-> "SetShaderTexture", tag |-> "Metal"],
    [line |-> 631, op |-> "Draw", mesh |-> "Cylinder"],
    [line |-> 649, op |-> "SetTransformations", scaleXYZ |-> <<600, 1000, 600>>, X |-> 0, Y |-> 0, Z |-> 0, positionXYZ |-> <<-10500, -9400, -33500>>],
    [line |-> 656, op |-> "SetShaderMaterial", tag |-> "Metal"],
    [line |-> 657, op |-> "SetShaderTexture", tag |-> "White"],
    [line |-> 660, op |-> "Draw", mesh |-> "Cylinder"],
    [line |-> 678, op |-> "SetTransformations", scaleXYZ |-> <<750, 750, 300>>, X |-> 90, Y |-> 0, Z |-> 0, positionXYZ |-> <<-10500, -9380, -33500>>],
    [line |-> 685, op |-> "SetShaderMaterial", tag |-> "Metal"],
    [line |-> 686, op |-> "SetShaderTexture", tag |-> "White"],
    [line |-> 689, op |-> "Draw", mesh |-> "Torus"],
    [line |-> 707, op |-> "SetTransformations", scaleXYZ |-> <<2200, 300, 200>>, X |-> 0, Y |-> -125, Z |-> 0, positionXYZ |-> <<8900, -9600, -31800>>],
    [line |-> 714, op |-> "SetShaderMaterial", tag |-> "Metal"],
    [line |-> 715, op |-> "SetShaderTexture", tag |-> "Metal"],
    [line |-> 718, op |-> "Draw", mesh |-> "Cylinder"],
    [line |-> 736, op |-> "SetTransformations", scaleXYZ |-> <<2200, 300, 200>>, X |-> 0, Y |-> 3, Z |-> 0, positionXYZ |-> <<5700, -9600, -29900>>],
    [line |-> 743, op |-> "SetShaderMaterial", tag |-> "Metal"],
    [line |-> 744, op |-> "SetShaderTexture", tag |-> "Metal"],
    [line |-> 747, op |-> "Draw", mesh |-> "Cylinder"],
    [line |-> 765, op |-> "SetTransformations", scaleXYZ |-> <<600, 600, 400>>, X |-> 90, Y |-> 0, Z |-> 0, positionXYZ |-> <<-10500, -9500, -33500>>],
    [line |-> 772, op |-> "SetShaderMaterial", tag |-> "Metal"],
    [line |-> 773, op |-> "SetShaderTexture", tag |-> "White"],
    [line |-> 776, op |-> "Draw", mesh |-> "Torus"],
    [line |-> 794, op |-> "SetTransformations", scaleXYZ |-> <<650, 750, 650>>, X |-> 0, Y |-> 30, Z |-> 90, positionXYZ |-> <<-3000, -9400, -38000>>],
    [line |-> 801, op |-> "SetShaderMaterial", tag |-> "Plastic"],
    [line |-> 802, op |-> "SetShaderTexture", tag |-> "White"],
    [line |-> 805, op |-> "Draw", mesh |-> "Cylinder"],
    [line |-> 823, op |-> "SetTransformations", scaleXYZ |-> <<3150, 2500, 2650>>, X |-> 0, Y |-> 30, Z |-> 0, positionXYZ |-> <<-4300, -8500, -23200>>],
    [line |-> 830, op |-> "SetShaderTexture", tag |-> "White"],
    [line |-> 831, op |-> "SetShaderMaterial", tag |-> "Plastic"],
    [line |-> 834, op |-> "Draw", mesh |-> "Box"],
    [line |-> 852, op |-> "SetTransformations", scaleXYZ |-> <<2600, 1000, 1500>>, X |-> 0, Y |-> 30, Z |-> 90, positionXYZ |-> <<18140, -7800, -36480>>],
    [line |-> 859, op |-> "SetShaderTexture", tag |-> "Wood"],
    [line |-> 860, op |-> "SetShaderMaterial", tag |-> "Wood"],
    [line |-> 863, op |-> "Draw", mesh |-> "Cylinder"],
    [line |-> 881, op |-> "SetTransformations", scaleXYZ |-> <<3000, 1000, 1500>>, X |-> 0, Y |-> 30, Z |-> 90, positionXYZ |-> <<20000, -7400, -37600>>],
    [line |-> 888, op |-> "SetShaderTexture", tag |-> "Wood"],
    [line |-> 889, op |-> "SetShaderMaterial", tag |-> "Wood"],
    [line |-> 892, op |-> "Draw", mesh |-> "Cylinder"],
    [line |-> 910, op |-> "SetTransformations", scaleXYZ |-> <<2400, 1000, 1200>>, X |-> 0, Y |-> 30, Z |-> 90, positionXYZ |-> <<20500, -7600, -37900>>],
    [line |-> 917, op |-> "SetShaderTexture", tag |-> "Wood"],
    [line |-> 918, op |-> "SetShaderMaterial", tag |-> "Wood"],
    [line |-> 921, op |-> "Draw", mesh |-> "Cylinder"],
    [line |-> 939, op |-> "SetTransformations", scaleXYZ |-> <<2000, 1000, 1000>>, X |-> 0, Y |-> 30, Z |-> 90, positionXYZ |-> <<20900, -7800, -38100>>],
    [line |-> 946, op |-> "SetShaderTexture", tag |-> "Wood"],
    [line |-> 947, op |-> "SetShaderMaterial", tag |-> "Wood"],
    [line |-> 950, op |-> "Draw", mesh |-> "Cylinder"],
    [line |-> 968, op |-> "SetTransformations", scaleXYZ |-> <<1600, 1000, 800>>, X |-> 0, Y |-> 30, Z |-> 90, positionXYZ |-> <<21300, -8200, -38400>>],
    [line |-> 975, op |-> "SetShaderTexture", tag |-> "Wood"],
    [line |-> 976, op |-> "SetShaderMaterial", tag |-> "Wood"],
    [line |-> 979, op |-> "Draw", mesh |-> "Cylinder"],
    [line |-> 997, op |-> "SetTransformations", scaleXYZ |-> <<1200, 1000, 600>>, X |-> 0, Y |-> 30, Z |-> 90, positionXYZ |-> <<21800, -8600, -38700>>],
    [line |-> 1004, op |-> "SetShaderTexture", tag |-> "Wood"],
    [line |-> 1005, op |-> "SetShaderMaterial", tag |-> "Wood"],
    [line |-> 1008, op |-> "Draw", mesh |-> "Cylinder"],
    [line |-> 1026, op |-> "SetTransformations", scaleXYZ |-> <<6500, 1000, 3500>>, X |-> 0, Y |-> 30, Z |-> 90, positionXYZ |-> <<18140, -6500, -36480>>],
    [line |-> 1033, op |-> "SetShaderColor", color |-> <<10000, 10000, 10000, 10000>>],
    [line |-> 1036, op |-> "Draw", mesh |-> "Box"],
    [line |-> 1054, op |-> "SetTransformations", scaleXYZ |-> <<6500, 1000, 3500>>, X |-> 0, Y |-> 30, Z |-> 90, positionXYZ |-> <<19000, -6500, -37000>>],
    [line |-> 1061, op |-> "SetShaderColor", color |-> <<6706, 8588, 8902, 10000>>],
    [line |-> 1064, op |-> "Draw", mesh |-> "Box"],
    [line |-> 1082, op |-> "SetTransformations", scaleXYZ |-> <<6500, 1400, 3500>>, X |-> 0, Y |-> 30, Z |-> 0, positionXYZ |-> <<-4000, -9500, -23000>>],
    [line |-> 1089, op |-> "SetShaderColor", color |-> <<10000, 10000, 10000, 10000>>],
    [line |-> 1092, op |-> "Draw", mesh |-> "Box"],
    [line |-> 1110, op |-> "SetTransformations", scaleXYZ |-> <<14000, 300, 8500>>, X |-> 90, Y |-> 0, Z |-> -30, positionXYZ |-> <<7750, -3000, -30200>>],
    [line |-> 1117, op |-> "SetShaderTexture", tag |-> "Magazine Cover"],
    [line |-> 1118, op |-> "SetShaderMaterial", tag |-> "Plastic"],
    [line |-> 1121, op |-> "Draw", mesh |-> "Box"],
    [line |-> 1139, op |-> "SetTransformations", scaleXYZ |-> <<7000, 300, 3000>>, X |-> 0, Y |-> 30, Z |-> 0, positionXYZ |-> <<2000, -9500, -41000>>],
    [line |-> 1146, op |-> "SetShaderMaterial", tag |-> "Plastic"],
    [line |-> 1147, op |-> "SetShaderTexture", tag |-> "White"],
    [line |-> 1150, op |-> "Draw", mesh |-> "Box"],
    [line |-> 1168, op |-> "SetTransformations", scaleXYZ |-> <<35000, 800, 18000>>, X |-> 0, Y |-> 30, Z |-> 0, positionXYZ |-> <<5000, -10000, -35000>>],
    [line |-> 1175, op |-> "SetShaderTexture", tag |-> "Wood"],
    [line |-> 1176, op |-> "SetShaderMaterial", tag |-> "Wood"],
    [line |-> 1179, op |-> "Draw", mesh |-> "Box"],
    [line |-> 1198, op |-> "SetTransformations", scaleXYZ |-> <<10000, 4500, 14300>>, X |-> 0, Y |-> 30, Z |-> 0, positionXYZ |-> <<14500, -12000, -40500>>],
    [line |-> 1205, op |-> "SetShaderTexture", tag |-> "Wood"],
    [line |-> 1206, op |-> "SetShaderMaterial", tag |-> "Wood"],
    [line |-> 1209, op |-> "Draw", mesh |-> "Box"],
    [line |-> 1228, op |-> "SetTransformations", scaleXYZ |-> <<3800, 1000, 4000>>, X |-> 0, Y |-> 30, Z |-> 0, positionXYZ |-> <<10100, -14200, -48950>>],
    [line |-> 1235, op |-> "SetShaderMaterial", tag |-> "Wood"],
    [line |-> 1236, op |-> "SetShaderTexture", tag |-> "Wood"],
    [line |-> 1239, op |-> "Draw", mesh |-> "Plane"],
    [line |-> 1258, op |-> "SetTransformations", scaleXYZ |-> <<2800, 1000, 3700>>, X |-> 0, Y |-> 30, Z |-> 0, positionXYZ |-> <<10000, -14100, -48950>>],
    [line |-> 1265, op |-> "SetShaderTexture", tag |-> "Magazine Cover"],
    [line |-> 1266, op |-> "SetShaderMaterial", tag |-> "Paper"],
    [line |-> 1269, op |-> "Draw", mesh |-> "Plane"],
    [line |-> 1288, op |-> "SetTransformations", scaleXYZ |-> <<200, 3000, 200>>, X |-> 90, Y |-> 0, Z |-> -30, positionXYZ |-> <<9000, -13800, -51700>>],
    [line |-> 1295, op |-> "SetShaderTexture", tag |-> "White"],
    [line |-> 1296, op |-> "SetShaderMaterial", tag |-> "Plastic"],
    [line |-> 1299, op |-> "Draw", mesh |-> "Cylinder"],
    [line |-> 1318, op |-> "SetTransformations", scaleXYZ |-> <<200, 3000, 200>>, X |-> 90, Y |-> 0, Z |-> -65, positionXYZ |-> <<7100, -13800, -50700>>],
    [line |-> 1325, op |-> "SetShaderTexture", tag |-> "White"],
    [line |-> 1326, op |-> "SetShaderMaterial", tag |-> "Plastic"],
    [line |-> 1329, op |-> "Draw", mesh |-> "Cylinder"],
    [line |-> 1348, op |-> "SetTransformations", scaleXYZ |-> <<8000, 2500, 800>>, X |-> 0, Y |-> 120, Z |-> 0, positionXYZ |-> <<6750, -13000, -47000>>],
    [line |-> 1355, op |-> "SetShaderTexture", tag |-> "Wood"],
    [line |-> 1356, op |-> "SetShaderMaterial", tag |-> "Wood"],
    [line |-> 1359, op |-> "Draw", mesh |-> "Box"],
    [line |-> 1378, op |-> "SetTransformations", scaleXYZ |-> <<8000, 2500, 800>>, X |-> 0, Y |-> 120, Z |-> 0, positionXYZ |-> <<13000, -13000, -51000>>],
    [line |-> 1385, op |-> "SetShaderTexture", tag |-> "Wood"],
    [line |-> 1386, op |-> "SetShaderMaterial", tag |-> "Wood"],
    [line |-> 1389, op |-> "Draw", mesh |-> "Box"],
    [line |-> 1408, op |-> "SetTransformations", scaleXYZ |-> <<8300, 500, 100>>, X |-> 0, Y |-> 120, Z |-> 0, positionXYZ |-> <<13500, -13800, -51000>>],
    [line |-> 1415, op |-> "SetShaderTexture", tag |-> "Metal"],
    [line |-> 1416, op |-> "SetShaderMaterial", tag |-> "Metal"],
    [line |-> 1419, op |-> "Draw", mesh |-> "Box"],
    [line |-> 1438, op |-> "SetTransformations", scaleXYZ |-> <<9000, 3500, 800>>, X |-> 0, Y |-> 30, Z |-> 0, positionXYZ |-> <<8100, -12500, -52500>>],
    [line |-> 1445, op |-> "SetShaderTexture", tag |-> "Wood"],
    [line |-> 1446, op |-> "SetShaderMaterial", tag |-> "Wood"],
    [line |-> 1449, op |-> "Draw", mesh |-> "Box"],
    [line |-> 1468, op |-> "SetTransformations", scaleXYZ |-> <<1000, 22000, 1000>>, X |-> 0, Y |-> 30, Z |-> 0, positionXYZ |-> <<-5000, -20990, -22000>>],
    [line |-> 1475, op |-> "SetShaderMaterial", tag |-> "Metal"],
    [line |-> 1476, op |-> "SetShaderTexture", tag |-> "Black Metal"],
    [line |-> 1479, op |-> "Draw", mesh |-> "Box"],
    [line |-> 1498, op |-> "SetTransformations", scaleXYZ |-> <<1000, 22000, 1000>>, X |-> 0, Y |-> 30, Z |-> 0, positionXYZ |-> <<3000, -20990, -26000>>],
    [line |-> 1505, op |-> "SetShaderTexture", tag |-> "Black Metal"],
    [line |-> 1506, op |-> "SetShaderMaterial", tag |-> "Metal"],
    [line |-> 1509, op |-> "Draw", mesh |-> "Box"],
    [line |-> 1528, op |-> "SetTransformations", scaleXYZ |-> <<1000, 22000, 1000>>, X |-> 0, Y |-> 30, Z |-> 0, positionXYZ |-> <<-12000, -20990, -34000>>],
    [line |-> 1535, op |-> "SetShaderTexture", tag |-> "Black Metal"],
    [line |-> 1536, op |-> "SetShaderMaterial", tag |-> "Metal"],
    [line |-> 1539, op |-> "Draw", mesh |-> "Box"],
    [line |-> 1558, op |-> "SetTransformations", scaleXYZ |-> <<1000, 22000, 1000>>, X |-> 0, Y |-> 30, Z |-> 0, positionXYZ |-> <<19500, -20990, -42800>>],
    [line |-> 1565, op |-> "SetShaderTexture", tag |-> "Black Metal"],
    [line |-> 1566, op |-> "SetShaderMaterial", tag |-> "Metal"],
    [line |-> 1569, op |-> "Draw", mesh |-> "Box"],
    [line |-> 1588, op |-> "SetTransformations", scaleXYZ |-> <<1000, 22000, 1000>>, X |-> 0, Y |-> 30, Z |-> 0, positionXYZ |-> <<6470, -20990, -43550>>],
    [line |-> 1595, op |-> "SetShaderTexture", tag |-> "Black Metal"],
    [line |-> 1596, op |-> "SetShaderMaterial", tag |-> "Metal"],
    [line |-> 1599, op |-> "Draw", mesh |-> "Box"],
    [line |-> 1618, op |-> "SetTransformations", scaleXYZ |-> <<1000, 22000, 1000>>, X |-> 0, Y |-> 30, Z |-> 0, positionXYZ |-> <<13000, -20990, -32000>>],
    [line |-> 1625, op |-> "SetShaderTexture", tag |-> "Black Metal"],
    [line |-> 1626, op |-> "SetShaderMaterial", tag |-> "Metal"],
    [line |-> 1629, op |-> "Draw", mesh |-> "Box"],
    [line |-> 1648, op |-> "SetTransformations", scaleXYZ |-> <<1000, 21000, 1000>>, X |-> 0, Y |-> 30, Z |-> 90, positionXYZ |-> <<-3000, -11000, -38400>>],
    [line |-> 1655, op |-> "SetShaderTexture", tag |-> "Black Metal"],
    [line |-> 1656, op |-> "SetShaderMaterial", tag |-> "Metal"],
    [line |-> 1659, op |-> "Draw", mesh |-> "Box"],
    [line |-> 1678, op |-> "SetTransformations", scaleXYZ |-> <<1000, 10650, 1000>>, X |-> 0, Y |-> 30, Z |-> 90, positionXYZ |-> <<14800, -29000, -40200>>],
    [line |-> 1685, op |-> "SetShaderTexture", tag |-> "Black Metal"],
    [line |-> 1686, op |-> "SetShaderMaterial", tag |-> "Metal"],
    [line |-> 1689, op |-> "Draw", mesh |-> "Box"],
    [line |-> 1708, op |-> "SetTransformations", scaleXYZ |-> <<1000, 13500, 1000>>, X |-> 0, Y |-> 120, Z |-> 90, positionXYZ |-> <<9645, -29000, -38000>>],
    [line |-> 1715, op |-> "SetShaderTexture", tag |-> "Black Metal"],
    [line |-> 1716, op |-> "SetShaderMaterial", tag |-> "Metal"],
    [line |-> 1719, op |-> "Draw", mesh |-> "Box"],
    [line |-> 1738, op |-> "SetTransformations", scaleXYZ |-> <<1000, 8750, 1000>>, X |-> 0, Y |-> 30, Z |-> 90, positionXYZ |-> <<-750, -29000, -24250>>],
    [line |-> 1745, op |-> "SetShaderTexture", tag |-> "Black Metal"],
    [line |-> 1746, op |-> "SetShaderMaterial", tag |-> "Metal"],
    [line |-> 1749, op |-> "Draw", mesh |-> "Box"],
    [line |-> 1768, op |-> "SetTransformations", scaleXYZ |-> <<1000, 13900, 1000>>, X |-> 0, Y |-> 120, Z |-> 90, positionXYZ |-> <<-8200, -29000, -27600>>],
    [line |-> 1775, op |-> "SetShaderTexture", tag |-> "Black Metal"],
    [line |-> 1776, op |-> "SetShaderMaterial", tag |-> "Metal"],
    [line |-> 1779, op |-> "Draw", mesh |-> "Box"],
    [line |-> 1797, op |-> "SetTransformations", scaleXYZ |-> <<10000, 18000, 5000>>, X |-> 0, Y |-> 120, Z |-> 0, positionXYZ |-> <<-4700, -29000, -30200>>],
    [line |-> 1804, op |-> "SetShaderMaterial", tag |-> "Metal"],
    [line |-> 1805, op |-> "SetShaderTexture", tag |-> "White"],
    [line |-> 1808, op |-> "Draw", mesh |-> "Box"]
    >>

-----------------------------------------------------------------------------
(* PrepareScene and RenderScene, one call at a time *)

Running(fn) == alive /\ pc.fn = fn

\* the call the running function makes next
Call == IF pc.fn = "PrepareScene" THEN PrepareCalls[pc.at] ELSE RenderCalls[pc.at]

\* the position after the call: the next call, or the return to the caller
Advance ==
    pc' = CASE pc.fn = "PrepareScene" /\ pc.at = Len(PrepareCalls) -> Idle(TRUE, 0)
            [] pc.fn = "RenderScene" /\ pc.at = Len(RenderCalls)
                   -> Idle(TRUE, pc.frames + 1)
            [] OTHER -> [pc EXCEPT !.at = @ + 1]

\* the uniforms a call has just written, with the values it gave them
Written(names) == [n \in {names[i] : i \in 1..Len(names)} |-> uniforms'[n]]

\* the uniforms a draw consumes: all of them, but for the colour when the
\* surface is textured and the sampler when it is flat-coloured
InEffect(u) ==
    [n \in DOMAIN u \ (IF "bUseTexture" \in DOMAIN u /\ u["bUseTexture"] = 1
                        THEN {"objectColor"}
                        ELSE {"objectTexture"}) |-> u[n]]

\* the history kept of a setter call of RenderScene
LogSetter ==
    /\ frame' = Append(frame, [op |-> last'.op, writes |-> Written(last'.writes)])
    /\ sinceDraw' = Append(sinceDraw, last'.op)
    /\ firstFrame' = firstFrame
    /\ UNCHANGED <<meshLoads, bindCalls>>

BeginPrepareScene ==
    /\ alive /\ pc = Idle(FALSE, 0)
    /\ pc' = [pc EXCEPT !.fn = "PrepareScene", !.at = 1]
    /\ UNCHANGED <<m_pShaderManager, registryVars, m_objectMaterials, uniforms, glVars,
                   oobWrites, alive, loads, last, prev, meshLoads, bindCalls,
                   sinceDraw, frame, firstFrame>>

PrepareCreateGLTexture ==
    /\ Running("PrepareScene") /\ Call.op = "CreateGLTexture"
    /\ \E image \in SceneImageFiles : CreateGLTexture(image, Call.tag)
    /\ Advance
    /\ UNCHANGED <<meshLoads, bindCalls, sinceDraw, frame, firstFrame>>

PrepareBindGLTextures ==
    /\ Running("PrepareScene") /\ Call.op = "BindGLTextures"
    /\ BindGLTextures
    /\ bindCalls' = Append(bindCalls, Len(loads))
    /\ Advance
    /\ UNCHANGED <<meshLoads, sinceDraw, frame, firstFrame>>

PrepareDefineObjectMaterials ==
    /\ Running("PrepareScene") /\ Call.op = "DefineObjectMaterials"
    /\ DefineObjectMaterials
    /\ Advance
    /\ UNCHANGED <<meshLoads, bindCalls, sinceDraw, frame, firstFrame>>

PrepareSetupSceneLights ==
    /\ Running("PrepareScene") /\ Call.op = "SetupSceneLights"
    /\ SetupSceneLights
    /\ Advance
    /\ UNCHANGED <<meshLoads, bindCalls, sinceDraw, frame, firstFrame>>

PrepareLoadMesh ==
    /\ Running("PrepareScene") /\ Call.op = "LoadMesh"
    /\ LoadMesh(Call.mesh)
    /\ Advance
    /\ UNCHANGED <<bindCalls, sinceDraw, frame, firstFrame>>

BeginRenderScene ==
    /\ alive /\ pc.fn = "idle" /\ pc.prepared /\ pc.frames < MaxFrames
    /\ pc' = [pc EXCEPT !.fn = "RenderScene", !.at = 1]
    /\ frame' = <<>>
    /\ UNCHANGED <<m_pShaderManager, registryVars, m_objectMaterials, uniforms, glVars,
                   oobWrites, alive, loads, last, prev, meshLoads, bindCalls,
                   sinceDraw, firstFrame>>

RenderSetTransformations ==
    /\ Running("RenderScene") /\ Call.op = "SetTransformations"
    /\ SetTransformations(Call.scaleXYZ, Call.X, Call.Y, Call.Z, Call.positionXYZ)
    /\ Advance
    /\ LogSetter

RenderSetShaderMaterial ==
    /\ Running("RenderScene") /\ Call.op = "SetShaderMaterial"
    /\ SetShaderMaterial(Call.tag)
    /\ Advance
    /\ LogSetter

RenderSetShaderTexture ==
    /\ Running("RenderScene") /\ Call.op = "SetShaderTexture"
    /\ SetShaderTexture(Call.tag)
    /\ Advance
    /\ LogSetter

RenderSetShaderColor ==
    /\ Running("RenderScene") /\ Call.op = "SetShaderColor"
    /\ SetShaderColor(Call.color[1], Call.color[2], Call.color[3], Call.color[4])
    /\ Advance
    /\ LogSetter

RenderDraw ==
    /\ Running("RenderScene") /\ Call.op = "Draw"
    /\ DrawMesh(Call.mesh)
    /\ Advance
    /\ frame' = Append(frame, [op |-> "DrawMesh", mesh |-> Call.mesh,
                               inEffect |-> InEffect(uniforms)])
    /\ firstFrame' = IF pc.at = Len(RenderCalls) /\ pc.frames = 0
                     THEN frame'
                     ELSE firstFrame
    /\ sinceDraw' = <<>>
    /\ UNCHANGED <<meshLoads, bindCalls>>

NextScene ==
    \/ BeginPrepareScene
    \/ PrepareCreateGLTexture
    \/ PrepareBindGLTextures
    \/ PrepareDefineObjectMaterials
    \/ PrepareSetupSceneLights
    \/ PrepareLoadMesh
    \/ BeginRenderScene
    \/ RenderSetTransformations
    \/ RenderSetShaderMaterial
    \/ RenderSetShaderTexture
    \/ RenderSetShaderColor
    \/ RenderDraw

SpecScene == InitWithShader /\ [][NextScene]_vars

-----------------------------------------------------------------------------
(* The scene, with the lookups and SetTextureUVScale called between the runs *)
(* of PrepareScene and RenderScene                                           *)

DriverTags == {"Wood", "Glass"}
DriverScales == {<<2, 2>>}

DriverFindTextureID ==
    \E tag \in DriverTags :
        Running("idle") /\ CallFindTextureID(tag) /\ UNCHANGED sceneVars

DriverFindTextureSlot ==
    \E tag \in DriverTags :
        Running("idle") /\ CallFindTextureSlot(tag) /\ UNCHANGED sceneVars

DriverFindMaterial ==
    \E tag \in DriverTags :
        Running("idle") /\ CallFindMaterial(tag) /\ UNCHANGED sceneVars

DriverSetTextureUVScale ==
    \E uv \in DriverScales :
        Running("idle") /\ SetTextureUVScale(uv[1], uv[2]) /\ UNCHANGED sceneVars

NextDriver ==
    \/ BeginPrepareScene
    \/ PrepareCreateGLTexture
    \/ PrepareBindGLTextures
    \/ PrepareDefineObjectMaterials
    \/ PrepareSetupSceneLights
    \/ PrepareLoadMesh
    \/ BeginRenderScene
    \/ RenderSetTransformations
    \/ RenderSetShaderMaterial
    \/ RenderSetShaderTexture
    \/ RenderSetShaderColor
    \/ RenderDraw
    \/ DriverFindTextureID
    \/ DriverFindTextureSlot
    \/ DriverFindMaterial
    \/ DriverSetTextureUVScale

SpecDriver == InitWithShader /\ [][NextDriver]_vars

-----------------------------------------------------------------------------
(* The setters of a SceneManager constructed with a null shader manager *)

InitWithoutShader == Init /\ m_pShaderManager = NULL

NullDefine ==
    /\ alive /\ Len(m_objectMaterials) < 4 * MaxDefines /\ DefineObjectMaterials
    /\ UNCHANGED sceneVars

NullSetTransformations ==
    \E s \in ScaleInputs, x \in AngleInputs, p \in PositionInputs :
        alive /\ SetTransformations(s, x, 0, 0, p) /\ UNCHANGED sceneVars

NullSetShaderColor ==
    \E c \in TexColors :
        alive /\ SetShaderColor(c[1], c[2], c[3], c[4]) /\ UNCHANGED sceneVars

NullSetShaderTexture ==
    \E tag \in TexTags : alive /\ SetShaderTexture(tag) /\ UNCHANGED sceneVars

NullSetTextureUVScale ==
    \E uv \in DriverScales :
        alive /\ SetTextureUVScale(uv[1], uv[2]) /\ UNCHANGED sceneVars

NullSetShaderMaterial ==
    \E tag \in MaterialTags : alive /\ SetShaderMaterial(tag) /\ UNCHANGED sceneVars

NextNull ==
    \/ NullDefine
    \/ NullSetTransformations
    \/ NullSetShaderColor
    \/ NullSetShaderTexture
    \/ NullSetTextureUVScale
    \/ NullSetShaderMaterial

SpecNull == InitWithoutShader /\ [][NextNull]_vars

-----------------------------------------------------------------------------
(* What the history of CreateGLTexture calls says the registry holds *)

\* the calls that returned true, in call order
Registered == SelectSeq(loads, LAMBDA c : c.retB)

\* the positions in Registered of the loads of a tag
RegistrationsOf(tag) == {i \in 1..Len(Registered) : Registered[i].tag = tag}

FirstOf(S) == CHOOSE i \in S : \A j \in S : i <= j

Loadable(image) == image.decoded /\ image.channels \in {3, 4}

-----------------------------------------------------------------------------
(* C2: after any sequence of CreateGLTexture calls, FindTextureSlot of a   *)
(* registered tag is the index at which the tag was registered (the first, *)
(* when it was registered more than once) and FindTextureID is the handle  *)
(* stored there; both are -1 for a tag that was never registered.          *)
C2_LookupRoundTrip ==
    \A tag \in LookupTags :
        IF RegistrationsOf(tag) = {}
        THEN FindTextureSlot(tag) = -1 /\ FindTextureID(tag) = -1
        ELSE LET first == FirstOf(RegistrationsOf(tag))
             IN  /\ FindTextureSlot(tag) = first - 1
                 /\ FindTextureID(tag) = Registered[first].ID

C2_Witness ==
    /\ last.op = "FindTextureSlot"
    /\ last.retI = 1
    /\ prev = NoCall
    /\ Len(Registered) = 3
    /\ \E tag \in LookupTags : RegistrationsOf(tag) = {} /\ FindTextureID(tag) = -1

(* C6: within the capacity, the count is the number of calls that returned *)
(* true, entries 0..count-1 are the (tag, handle) pairs of those calls in  *)
(* call order, later entries keep their initial value, a call returns      *)
(* false exactly when the image is not decoded or has neither 3 nor 4      *)
(* channels, and a call that returned false left the count as it was.      *)
C6_RegistryIsSuccessfulLoads ==
    Len(Registered) <= NumSlots =>
        /\ m_loadedTextures = Len(Registered)
        /\ \A i \in 0..(NumSlots - 1) :
               m_textureIDs[i] =
                   IF i < Len(Registered)
                   THEN [tag |-> Registered[i + 1].tag, ID |-> Registered[i + 1].ID]
                   ELSE InitialEntry
        /\ \A k \in 1..Len(loads) : loads[k].retB <=> Loadable(loads[k].image)
        /\ last.op = "CreateGLTexture" /\ ~last.retB => m_loadedTextures = last.before

C6_Witness ==
    /\ Len(loads) = 3
    /\ m_loadedTextures = 2
    /\ last.op = "CreateGLTexture"
    /\ ~last.retB
    /\ last.image.decoded
    /\ m_textureIDs[2] = InitialEntry
    /\ m_textureIDs[1].tag = "Metal"

(* C7 as claimed: every load of a decodable 3- or 4-channel image returns  *)
(* true and its tag is resolved afterwards, and the tag of every failed    *)
(* load stays unresolved.                                                  *)
C7_FailedTagUnresolved ==
    \A k \in 1..Len(loads) :
        IF Loadable(loads[k].image)
        THEN /\ loads[k].retB
             /\ FindTextureSlot(loads[k].tag) # -1
             /\ FindTextureID(loads[k].tag) # -1
        ELSE /\ ~loads[k].retB
             /\ FindTextureSlot(loads[k].tag) = -1
             /\ FindTextureID(loads[k].tag) = -1

(* C7, amended: every load of a decodable 3- or 4-channel image returns    *)
(* true, whatever failed before it, and its tag is resolved afterwards;    *)
(* the tag of a failed load is unresolved unless a successful load         *)
(* registered the same tag.                                                *)
C7_PartialFailureIsolation ==
    \A k \in 1..Len(loads) :
        IF Loadable(loads[k].image)
        THEN /\ loads[k].retB
             /\ FindTextureSlot(loads[k].tag) # -1
             /\ FindTextureID(loads[k].tag) # -1
        ELSE /\ ~loads[k].retB
             /\ RegistrationsOf(loads[k].tag) = {} =>
                    /\ FindTextureSlot(loads[k].tag) = -1
                    /\ FindTextureID(loads[k].tag) = -1

C7_Witness ==
    /\ Len(loads) = 3
    /\ loads[1].retB /\ ~loads[2].retB /\ loads[3].retB
    /\ Cardinality({loads[k].tag : k \in 1..3}) = 3
    /\ FindTextureSlot(loads[1].tag) = 0
    /\ FindTextureSlot(loads[3].tag) = 1
    /\ FindTextureSlot(loads[2].tag) = -1
    /\ FindTextureID(loads[3].tag) = loads[3].ID

(* C8: once BindGLTextures has run with N textures registered, texture     *)
(* unit i holds the handle of the i-th registered texture for every i < N, *)
(* and the call bound no unit of index N or more.                          *)
C8_BindAllInOrder ==
    last.op = "BindGLTextures" =>
        /\ \A i \in 0..(Len(Registered) - 1) : glUnits[i] = Registered[i + 1].ID
        /\ last.units = 0..(Len(Registered) - 1)

C8_Witness ==
    /\ last.op = "BindGLTextures"
    /\ Len(Registered) = 2
    /\ Len(loads) = 3
    /\ glUnits[1] = Registered[2].ID
    /\ glUnits[2] = 0

-----------------------------------------------------------------------------
(* What scale, the three axis rotations and translation do to a point *)

ScalePoint(v, s) == <<v[1] * s[1], v[2] * s[2], v[3] * s[3]>>

AboutX(v, d) == <<v[1], Cos(d) * v[2] - Sin(d) * v[3], Sin(d) * v[2] + Cos(d) * v[3]>>

AboutY(v, d) == <<Cos(d) * v[1] + Sin(d) * v[3], v[2], Cos(d) * v[3] - Sin(d) * v[1]>>

AboutZ(v, d) == <<Cos(d) * v[1] - Sin(d) * v[2], Sin(d) * v[1] + Cos(d) * v[2], v[3]>>

MovePoint(v, p) == <<v[1] + p[1], v[2] + p[2], v[3] + p[3]>>

\* the matrix applied to the column vector (v, 1)
Apply(M, v) ==
    <<M[1][1] * v[1] + M[1][2] * v[2] + M[1][3] * v[3] + M[1][4],
      M[2][1] * v[1] + M[2][2] * v[2] + M[2][3] * v[3] + M[2][4],
      M[3][1] * v[1] + M[3][2] * v[2] + M[3][3] * v[3] + M[3][4]>>

\* an affine map is fixed by its values on the origin and the three unit points
ProbePoints == {<<0, 0, 0>>, <<1, 0, 0>>, <<0, 1, 0>>, <<0, 0, 1>>}

\* scale first, then the rotations about Z, Y and X, translation last
ScaleFirstTranslationLast(c) ==
    /\ uniforms["model"][4] = <<0, 0, 0, 1>>
    /\ \A v \in ProbePoints :
           Apply(uniforms["model"], v) =
               MovePoint(AboutX(AboutY(AboutZ(ScalePoint(v, c.scaleXYZ),
                                              c.ZrotationDegrees),
                                       c.YrotationDegrees),
                                c.XrotationDegrees),
                         c.positionXYZ)

RotationsCommute(x, y) ==
    Mul(rotate(x, <<1, 0, 0>>), rotate(y, <<0, 1, 0>>))
        = Mul(rotate(y, <<0, 1, 0>>), rotate(x, <<1, 0, 0>>))

\* Translation x RotationY x RotationX x RotationZ x Scale
SwappedProduct(c) ==
    Mul(translate(c.positionXYZ),
        Mul(rotate(c.YrotationDegrees, <<0, 1, 0>>),
            Mul(rotate(c.XrotationDegrees, <<1, 0, 0>>),
                Mul(rotate(c.ZrotationDegrees, <<0, 0, 1>>), scale(c.scaleXYZ)))))

NoZeroScale(c) == \A i \in 1..3 : c.scaleXYZ[i] # 0

(* C1 as claimed: SetTransformations writes to 'model' the product         *)
(* Translation x RotationX x RotationY x RotationZ x Scale, and for every  *)
(* input with non-commuting X and Y rotations that value differs from the  *)
(* product with RotationX and RotationY swapped.                           *)
C1_OrderSensitiveForEveryInput ==
    last.op = "SetTransformations" =>
        /\ ScaleFirstTranslationLast(last)
        /\ ~RotationsCommute(last.XrotationDegrees, last.YrotationDegrees) =>
               uniforms["model"] # SwappedProduct(last)

(* C1, amended: SetTransformations writes to 'model' the product           *)
(* Translation x RotationX x RotationY x RotationZ x Scale (scale applied  *)
(* first, translation last), and for non-commuting X and Y rotations and a *)
(* scale with no zero component that value differs from the product with   *)
(* RotationX and RotationY swapped.                                        *)
C1_CompositionOrder ==
    last.op = "SetTransformations" =>
        /\ ScaleFirstTranslationLast(last)
        /\ (/\ ~RotationsCommute(last.XrotationDegrees, last.YrotationDegrees)
            /\ NoZeroScale(last)) =>
               uniforms["model"] # SwappedProduct(last)

C1_Witness ==
    /\ last.op = "SetTransformations"
    /\ last.scaleXYZ = <<1, 2, 3>>
    /\ last.XrotationDegrees = 90
    /\ last.YrotationDegrees = 90
    /\ last.ZrotationDegrees = 180
    /\ last.positionXYZ = <<-3, 4, 6>>
    /\ ~RotationsCommute(90, 90)
    /\ uniforms["model"] # SwappedProduct(last)

-----------------------------------------------------------------------------
HasPreset(tag) == \E i \in 1..Len(m_objectMaterials) : m_objectMaterials[i].tag = tag

(* C3: FindMaterial returns false when the table is empty and when no      *)
(* preset of the table has the tag, and true only when one has.            *)
C3_FindMaterialReportsMiss ==
    last.op = "FindMaterial" => (last.retB <=> HasPreset(last.tag))

(* C4: SetShaderMaterial with a tag that no preset carries writes none of  *)
(* the five material uniforms, whether the table is empty or not.          *)
C4_UnresolvedMaterialIsNoOp ==
    (last.op = "SetShaderMaterial" /\ alive /\ ~HasPreset(last.tag)) =>
        /\ last.writes = <<>>
        /\ uniforms = last.pre

(* C5: a CreateGLTexture call made with 16 textures registered is          *)
(* rejected: the count stays within 0..16, no entry outside 0..15 is       *)
(* written, and a call that found the count at 16 returned false.          *)
C5_CapacityGuard ==
    /\ alive
    /\ m_loadedTextures \in 0..NumSlots
    /\ oobWrites = {}
    /\ (last.op = "CreateGLTexture" /\ last.before = NumSlots) => ~last.retB

(* C9: whenever bUseTexture is true, objectTexture holds a slot index in   *)
(* 0..count-1; the miss sentinel -1 is never the sampler index.            *)
C9_SamplerIsValidSlot ==
    (IsSet("bUseTexture") /\ uniforms["bUseTexture"] = 1) =>
        /\ IsSet("objectTexture")
        /\ uniforms["objectTexture"] \in 0..(m_loadedTextures - 1)

\* the uniforms u with texturing enabled on a slot
WithTexture(u, slot) ==
    [n \in DOMAIN u \cup {"bUseTexture", "objectTexture"} |->
        CASE n = "bUseTexture" -> 1
          [] n = "objectTexture" -> slot
          [] OTHER -> u[n]]

IsTextureCall(c) == c.op = "SetShaderTexture"

(* C10: a SetShaderTexture call with an unresolved tag changes neither the *)
(* texture registry nor the material table, and a SetShaderTexture call    *)
(* with a resolved tag T that follows it leaves bUseTexture true,          *)
(* objectTexture at T's slot and every other uniform as it was before the  *)
(* unresolved call.                                                        *)
C10_MissDoesNotCarryOver ==
    /\ [][(IsTextureCall(last') /\ RegistrationsOf(last'.tag) = {}) =>
            UNCHANGED <<m_textureIDs, m_loadedTextures, m_objectMaterials>>]_vars
    /\ []((/\ IsTextureCall(last) /\ RegistrationsOf(last.tag) # {}
           /\ IsTextureCall(prev) /\ RegistrationsOf(prev.tag) = {}) =>
              uniforms = WithTexture(prev.pre, FirstOf(RegistrationsOf(last.tag)) - 1))

C10_Witness ==
    /\ IsTextureCall(last) /\ RegistrationsOf(last.tag) # {}
    /\ IsTextureCall(prev) /\ RegistrationsOf(prev.tag) = {}
    /\ "objectColor" \in DOMAIN prev.pre
    /\ prev.pre["bUseTexture"] = 0
    /\ uniforms["bUseTexture"] = 1
    /\ uniforms["objectTexture"] = 1
    /\ uniforms["objectColor"] = prev.pre["objectColor"]

-----------------------------------------------------------------------------
(* C11, C12: the material table *)

PresetsOf(tag) == {i \in 1..Len(m_objectMaterials) : m_objectMaterials[i].tag = tag}

\* the five numeric fields FindMaterial copies out
Values(material) ==
    <<material.ambientColor, material.ambientStrength, material.diffuseColor,
      material.specularColor, material.shininess>>

\* C11: when several presets carry the looked-up tag, FindMaterial hands back
\* the values of the one pushed first, whatever the later ones hold.
C11_FirstDefinedPresetWins ==
    (last.op = "FindMaterial" /\ PresetsOf(last.tag) # {})
        => Values(last.material) = Values(m_objectMaterials[FirstOf(PresetsOf(last.tag))])

\* a lookup of a tag that two presets of different values carry
C11_Witness ==
    /\ last.op = "FindMaterial"
    /\ \E i, j \in PresetsOf(last.tag) :
           /\ i < j
           /\ i = FirstOf(PresetsOf(last.tag))
           /\ Values(m_objectMaterials[i]) # Values(m_objectMaterials[j])
           /\ Values(last.material) = Values(m_objectMaterials[i])

\* C12: DefineObjectMaterials appends its four presets whatever the table holds,
\* with no uniqueness check; no step rewrites or removes a preset already in
\* the table, and FindMaterial and SetShaderMaterial leave the table as it is.
C12_AppendOnlyTable ==
    [][/\ Len(m_objectMaterials') >= Len(m_objectMaterials)
       /\ SubSeq(m_objectMaterials', 1, Len(m_objectMaterials)) = m_objectMaterials
       /\ last'.op = "DefineObjectMaterials"
              => Len(m_objectMaterials') = Len(m_objectMaterials) + 4
       /\ last'.op \in {"FindMaterial", "SetShaderMaterial"}
              => m_objectMaterials' = m_objectMaterials]_vars

\* a second DefineObjectMaterials call has doubled the table, then a setter ran
C12_Witness ==
    /\ Len(m_objectMaterials) = 8
    /\ m_objectMaterials[5].tag = m_objectMaterials[1].tag
    /\ last.op = "SetShaderMaterial"

-----------------------------------------------------------------------------
(* C13: the surface mode *)

SurfaceSetters == {"SetShaderColor", "SetShaderTexture"}

\* bUseTexture, or "unset" when no call has written it
SurfaceMode(u) == IF "bUseTexture" \in DOMAIN u THEN u["bUseTexture"] ELSE "unset"

\* C13: right after SetShaderColor bUseTexture is false and objectColor is the
\* colour given; right after SetShaderTexture bUseTexture is true; no other
\* call, a draw included, changes bUseTexture, so at every draw it is what the
\* later of the two setters made it.
C13_SurfaceModeFollowsLastSetter ==
    /\ [](last.op = "SetShaderColor"
             => SurfaceMode(uniforms) = 0 /\ uniforms["objectColor"] = last.color)
    /\ [](last.op = "SetShaderTexture" => SurfaceMode(uniforms) = 1)
    /\ [][last'.op \notin SurfaceSetters
             => SurfaceMode(uniforms') = SurfaceMode(uniforms)]_vars

\* a flat-coloured draw of the second frame: the textured draws before it had
\* left bUseTexture true
C13_Witness ==
    /\ last.op = "DrawMesh"
    /\ last.setters = <<"SetTransformations", "SetShaderColor">>
    /\ SurfaceMode(uniforms) = 0
    /\ uniforms["objectColor"] = <<6706, 8588, 8902, 10000>>
    /\ pc.frames = 1

-----------------------------------------------------------------------------
(* C14, C15, C16: the order of the calls of the scene *)

\* C14: at every draw of RenderScene the setters called since the previous
\* draw are SetTransformations, then SetShaderMaterial, then SetShaderTexture
\* or SetShaderColor.
C14_SetterOrder ==
    last.op = "DrawMesh"
        => last.setters \in {<<"SetTransformations", "SetShaderMaterial", s>> :
                                 s \in SurfaceSetters}

\* C15: once PrepareScene has returned each of the four meshes has been
\* loaded exactly once, and stays so through every RenderScene; every draw is
\* of a mesh loaded exactly once.
C15_MeshesLoadedOnce ==
    /\ pc.prepared => \A mesh \in Meshes : meshLoads[mesh] = 1
    /\ pc.fn = "RenderScene" => pc.prepared
    /\ last.op = "DrawMesh" => last.loaded = 1 /\ meshLoads[last.mesh] = 1

\* a torus drawn in the second frame
C15_Witness ==
    last.op = "DrawMesh" /\ last.mesh = "Torus" /\ pc.frames = 1 /\ last.loaded = 1

\* C16: when PrepareScene has returned BindGLTextures has been called once,
\* after all five CreateGLTexture calls; no CreateGLTexture call follows it;
\* at every draw the sampler index in use, if it is a slot, names a unit that
\* holds that slot's texture.
C16_BindOnceAfterLoads ==
    /\ Len(bindCalls) <= 1
    /\ pc.prepared => Len(bindCalls) = 1
    /\ Len(bindCalls) = 1 => bindCalls[1] = Len(loads)
    /\ pc.prepared => Len(loads) = 5
    /\ last.op = "DrawMesh"
           => /\ Len(bindCalls) = 1
              /\ (SurfaceMode(uniforms) = 1 /\ uniforms["objectTexture"] >= 0)
                     => /\ uniforms["objectTexture"] < m_loadedTextures
                        /\ glUnits[uniforms["objectTexture"]]
                               = m_textureIDs[uniforms["objectTexture"]].ID

\* a draw that samples the texture registered last, all five having loaded
C16_Witness ==
    /\ last.op = "DrawMesh"
    /\ m_loadedTextures = 5
    /\ SurfaceMode(uniforms) = 1
    /\ uniforms["objectTexture"] = 4
    /\ glUnits[4] = m_textureIDs[4].ID

-----------------------------------------------------------------------------
(* C17: teardown *)

\* C17: after DestroyGLTextures, and after the destructor, no texture object is
\* live: each one created has been deleted and none has been allocated.
C17_TeardownReleasesTextures ==
    last.op \in {"DestroyGLTextures", "~SceneManager"} => LiveTextures = {}

-----------------------------------------------------------------------------
(* C18: what the registry and the material table are written by *)

ReadOnlyOps ==
    {"SetTransformations", "SetShaderColor", "SetShaderTexture", "SetTextureUVScale",
     "SetShaderMaterial", "BindGLTextures", "FindTextureID", "FindTextureSlot",
     "FindMaterial", "DrawMesh"}

\* C18: a step of RenderScene, of one of the five setters, of BindGLTextures
\* or of one of the three lookups leaves m_textureIDs, m_loadedTextures and
\* m_objectMaterials as they were.
C18_RegistryAndTableReadOnly ==
    [][(last'.op \in ReadOnlyOps \/ pc.fn = "RenderScene")
          => UNCHANGED <<m_textureIDs, m_loadedTextures, m_objectMaterials>>]_vars

\* a lookup after a frame, over a registry and a table that hold entries
C18_Witness ==
    /\ last.op = "FindTextureSlot"
    /\ pc.frames = 1
    /\ m_loadedTextures >= 2
    /\ Len(m_objectMaterials) = 4
    /\ "UVscale" \in DOMAIN uniforms

-----------------------------------------------------------------------------
(* C19: one frame against another *)

\* C19: the uniform writes and draws of every RenderScene after the first,
\* with the values written and the values each draw consumes, are those of
\* the first RenderScene, call for call.
C19_FramesAreIdentical ==
    /\ (pc.fn = "RenderScene" /\ pc.frames >= 1)
           => /\ Len(frame) <= Len(firstFrame)
              /\ frame = SubSeq(firstFrame, 1, Len(frame))
    /\ (pc.fn = "idle" /\ pc.frames >= 1) => frame = firstFrame

\* a second frame has been rendered to its end, over a registry in which one
\* of the scene's textures failed to load
C19_Witness ==
    /\ pc.fn = "idle" /\ pc.frames = 2
    /\ Len(frame) = Len(RenderCalls)
    /\ m_loadedTextures = 4
    /\ \E i \in 1..Len(frame) : frame[i].op = "DrawMesh"

-----------------------------------------------------------------------------
(* C20: the uniforms each setter writes *)

\* every uniform outside names is as it was, set or unset
OnlyWrites(names) ==
    /\ DOMAIN uniforms' \ names = DOMAIN uniforms \ names
    /\ \A n \in DOMAIN uniforms \ names : uniforms'[n] = uniforms[n]

\* C20: SetTransformations writes 'model' and nothing else, SetTextureUVScale
\* 'UVscale', SetShaderColor 'bUseTexture' and 'objectColor', SetShaderTexture
\* 'bUseTexture' and 'objectTexture', SetShaderMaterial nothing but the five
\* material uniforms.
C20_SettersWriteOwnUniforms ==
    [][/\ last'.op = "SetTransformations"
           => OnlyWrites({"model"}) /\ "model" \in DOMAIN uniforms'
       /\ last'.op = "SetTextureUVScale"
           => OnlyWrites({"UVscale"}) /\ "UVscale" \in DOMAIN uniforms'
       /\ last'.op = "SetShaderColor"
           => /\ OnlyWrites({"bUseTexture", "objectColor"})
              /\ {"bUseTexture", "objectColor"} \subseteq DOMAIN uniforms'
       /\ last'.op = "SetShaderTexture"
           => /\ OnlyWrites({"bUseTexture", "objectTexture"})
              /\ {"bUseTexture", "objectTexture"} \subseteq DOMAIN uniforms'
       /\ last'.op = "SetShaderMaterial"
           => OnlyWrites({MaterialNames[i] : i \in 1..Len(MaterialNames)})]_vars

\* SetShaderMaterial has run with the model, the surface mode, the sampler,
\* the colour and the tiling scale all set before it
C20_Witness ==
    /\ last.op = "SetShaderMaterial"
    /\ last.writes = MaterialNames
    /\ {"model", "bUseTexture", "objectTexture", "objectColor", "UVscale"}
           \subseteq DOMAIN last.pre
    /\ \A n \in DOMAIN last.pre \ {MaterialNames[i] : i \in 1..Len(MaterialNames)} :
           uniforms[n] = last.pre[n]

-----------------------------------------------------------------------------
(* C21: the sampler index SetShaderTexture writes *)

\* C21: SetShaderTexture sets bUseTexture to true; for a tag that no call
\* registered it writes -1 as objectTexture, for a registered tag the index of
\* the slot the tag was first registered in.
C21_SamplerIsSlotOrSentinel ==
    last.op = "SetShaderTexture"
        => /\ SurfaceMode(uniforms) = 1
           /\ uniforms["objectTexture"]
                  = IF RegistrationsOf(last.tag) = {}
                    THEN -1
                    ELSE FirstOf(RegistrationsOf(last.tag)) - 1

\* a miss on a registry that holds a texture, right after a hit
C21_Witness ==
    /\ last.op = "SetShaderTexture"
    /\ RegistrationsOf(last.tag) = {}
    /\ m_loadedTextures >= 1
    /\ uniforms["objectTexture"] = -1
    /\ prev.op = "SetShaderTexture"
    /\ RegistrationsOf(prev.tag) # {}

-----------------------------------------------------------------------------
(* C22: a tag registered twice *)

\* the registered slots that carry the tag
SlotsOf(tag) == {i \in 0..(m_loadedTextures - 1) : m_textureIDs[i].tag = tag}

\* C22: a successful load of a tag already registered fills the next slot and
\* leaves the earlier entries alone; for a tag held by several slots both
\* lookups give the first slot and its handle, never a later one; and
\* BindGLTextures binds every slot, the later ones included, to its own unit.
C22_DuplicateTagShadowed ==
    /\ (last.op = "CreateGLTexture" /\ last.retB)
           => /\ m_loadedTextures = last.before + 1
              /\ m_textureIDs[last.before] = [tag |-> last.tag, ID |-> last.ID]
              /\ SlotsOf(last.tag)
                     = {i - 1 : i \in RegistrationsOf(last.tag)}
    /\ \A tag \in TextureTags :
           Cardinality(SlotsOf(tag)) >= 2
               => /\ FindTextureSlot(tag) = FirstOf(SlotsOf(tag))
                  /\ FindTextureID(tag) = m_textureIDs[FirstOf(SlotsOf(tag))].ID
                  /\ \A j \in SlotsOf(tag) \ {FirstOf(SlotsOf(tag))} :
                         /\ FindTextureSlot(tag) # j
                         /\ FindTextureID(tag) # m_textureIDs[j].ID
    /\ last.op = "BindGLTextures"
           => \A j \in 0..(m_loadedTextures - 1) : glUnits[j] = m_textureIDs[j].ID

\* the same tag in slots 0 and 1, bound to units 0 and 1
C22_Witness ==
    /\ last.op = "BindGLTextures"
    /\ \E tag \in TextureTags :
           /\ SlotsOf(tag) = {0, 1}
           /\ FindTextureSlot(tag) = 0
           /\ glUnits[1] = m_textureIDs[1].ID
           /\ glUnits[1] # glUnits[0]

-----------------------------------------------------------------------------
(* C23: what a failed load leaves behind *)

\* C23: after a CreateGLTexture call that returned false the texture objects
\* that exist are those of the calls that returned true, no decoded image is
\* held, and no texture is bound to the 2D target of the active unit.
C23_FailedLoadLeavesNothing ==
    (last.op = "CreateGLTexture" /\ ~last.retB)
        => /\ last.ID = 0
           /\ LiveTextures = {Registered[i].ID : i \in 1..Len(Registered)}
           /\ imagesHeld = 0
           /\ glUnits[glActive] = 0

-----------------------------------------------------------------------------
(* C24: the setters under a null shader manager *)

Setters ==
    {"SetTransformations", "SetShaderColor", "SetShaderTexture", "SetTextureUVScale",
     "SetShaderMaterial"}

\* C24: with a null shader manager no setter call goes through the pointer:
\* each returns with the process alive and no uniform written, whatever the
\* material table holds.
C24_NullShaderSettersAreNoOps ==
    (m_pShaderManager = NULL /\ last.op \in Setters)
        => /\ alive
           /\ "crashed" \notin DOMAIN last
           /\ last.writes = <<>>
           /\ DOMAIN uniforms = {}

-----------------------------------------------------------------------------
(* C25: what each draw of RenderScene is preceded by *)

\* the number of calls in setters that are of one of ops
CallsOf(setters, ops) == Cardinality({i \in 1..Len(setters) : setters[i] \in ops})

\* C25: since the previous draw every draw of RenderScene has had exactly one
\* SetTransformations call, exactly one SetShaderTexture or SetShaderColor
\* call, and a SetShaderMaterial call that wrote the material it is drawn with.
C25_IndependentDrawTuples ==
    last.op = "DrawMesh"
        => /\ CallsOf(last.setters, {"SetTransformations"}) = 1
           /\ CallsOf(last.setters, SurfaceSetters) = 1
           /\ CallsOf(last.setters, {"SetShaderMaterial"}) >= 1

-----------------------------------------------------------------------------
(* C26: the tags of the scene *)

\* the position, from 1, of the CreateGLTexture call of LoadSceneTextures that
\* loads the tag
LoadOf(tag) ==
    CHOOSE i \in 1..Len(PrepareCalls) :
        PrepareCalls[i].op = "CreateGLTexture" /\ PrepareCalls[i].tag = tag

\* the loads before the i-th that returned false
FailedBefore(i) == Cardinality({j \in 1..(i - 1) : ~loads[j].retB})

\* the sampler index the scene is to use for the tag: -1 when its load
\* failed, else its position among the five less the failed loads before it
SceneSlot(tag) ==
    IF loads[LoadOf(tag)].retB
    THEN LoadOf(tag) - 1 - FailedBefore(LoadOf(tag))
    ELSE -1

RECURSIVE TextureTagBefore(_)
\* the tag of the SetShaderTexture call that RenderScene makes between the
\* previous draw and its call number at, "none" when there is no such call
TextureTagBefore(at) ==
    IF at = 1 \/ RenderCalls[at - 1].op = "Draw"
    THEN "none"
    ELSE IF RenderCalls[at - 1].op = "SetShaderTexture"
         THEN RenderCalls[at - 1].tag
         ELSE TextureTagBefore(at - 1)

\* the number of the call of RenderScene that was made last: the one before
\* the next, or the last of all when RenderScene has returned or begins anew
LastAt == IF pc.fn = "RenderScene" /\ pc.at > 1 THEN pc.at - 1 ELSE Len(RenderCalls)

AllLoadsSucceeded == \A i \in 1..Len(loads) : loads[i].retB

\* C26: every SetShaderTexture call of RenderScene writes the slot its tag
\* was loaded into, which BindGLTextures bound to the tag's texture: with all
\* five loads successful that is the tag's position 0..4 in LoadSceneTextures;
\* a tag whose load failed gets -1 and every tag loaded after it one slot
\* less. Every textured draw is issued with that index, and with all loads
\* successful no draw at all is issued with -1. Every SetShaderMaterial call
\* of RenderScene names a preset of the table and writes its values.
C26_SceneTagsResolve ==
    /\ last.op = "SetShaderTexture"
           => /\ uniforms["objectTexture"] = SceneSlot(last.tag)
              /\ SceneSlot(last.tag) >= 0
                     => /\ m_textureIDs[SceneSlot(last.tag)].tag = last.tag
                        /\ glUnits[SceneSlot(last.tag)] = loads[LoadOf(last.tag)].ID
              /\ AllLoadsSucceeded => SceneSlot(last.tag) = LoadOf(last.tag) - 1
    /\ last.op = "SetShaderMaterial"
           => /\ HasPreset(last.tag)
              /\ \E i \in PresetsOf(last.tag) :
                     /\ uniforms["material.ambientColor"] = m_objectMaterials[i].ambientColor
                     /\ uniforms["material.ambientStrength"]
                            = m_objectMaterials[i].ambientStrength
                     /\ uniforms["material.diffuseColor"] = m_objectMaterials[i].diffuseColor
                     /\ uniforms["material.specularColor"]
                            = m_objectMaterials[i].specularColor
                     /\ uniforms["material.shininess"] = m_objectMaterials[i].shininess
    /\ last.op = "DrawMesh"
           => /\ TextureTagBefore(LastAt) # "none"
                     => uniforms["objectTexture"] = SceneSlot(TextureTagBefore(LastAt))
              /\ AllLoadsSucceeded => uniforms["objectTexture"] \in 0..4

\* a draw textured with "White", the tag loaded last, "Metal" having failed to
\* load: the index is 3, and the draws that use "Metal" get -1
C26_Witness ==
    /\ last.op = "DrawMesh"
    /\ TextureTagBefore(LastAt) = "White"
    /\ ~loads[LoadOf("Metal")].retB
    /\ \A i \in 1..Len(loads) : i # LoadOf("Metal") => loads[i].retB
    /\ uniforms["objectTexture"] = 3
    /\ SceneSlot("Metal") = -1

====
